---- MODULE Spec2Model ----
(***************************************************************************)
(* State-machine model of the ShamaiAI multi-source scraping engine:       *)
(*   - the pipeline orchestrator          (src/src/orchestrator.py)        *)
(*   - the persistence gateway save_to_db (src/src/scrapers/base_scraper.py)*)
(*   - the load-exhaustion strategies and the adapters' scrape()/run()     *)
(*     (src/src/scrapers/{onmap,yad2,madlan}_scraper.py, base_scraper.py)  *)
(* Each part has its own specification over the shared variables; the     *)
(* variables of the parts a specification does not exercise stay idle.     *)
(***************************************************************************)
EXTENDS Integers, Sequences, FiniteSets, TLC

VARIABLES
    \* ---- orchestrator (ShamaiAIOrchestrator, main) ----
    o_pc,             \* position of main()/run(): the stage about to run
    env,              \* environment variables that are set and non-empty
    adapter_returns,  \* per source: listings its adapter scrapes when invoked
    adapter_errors,   \* per source: errors its adapter counts when invoked
    stage_raised,     \* sources whose stage's try body raised (history)
    stages_run,       \* stage functions entered so far, in order (history)
    orch_stats,       \* self.stats of the orchestrator
    run_outcome,      \* "running" | "returned" | "raised": how run() ended
    exit_code,        \* -1 while main() has not exited, else sys.exit's code
    \* ---- persistence gateway (BaseIsraeliScraper.save_to_db) ----
    s_pc,             \* "idle" | "loop" | "returned": position of save_to_db
    store,            \* rows of table il_properties
    next_id,          \* the id the store gives the next inserted row
    properties,       \* argument of the current save_to_db call
    prop_idx,         \* index of the listing the for loop handles next
    counts,           \* counts of the current call
    outcomes,         \* per handled listing: "new" | "updated" | "error" (history)
    store_before,     \* natural keys stored when the current call began (history)
    store_failed,     \* a store operation has raised since Init (history)
    calls,            \* save_to_db calls made so far
    workers,          \* overlapping save_to_db invocations: per invocation
                      \* its position, list, loop index, select result, counts
    \* ---- incremental scroll (OnMapScraper._scroll_to_load_all) ----
    sc_pc,            \* "idle" | "loop" | "done"
    sc_limit,         \* the limit argument: <<>> for None, <<n>> for n
    scroll_count,     \* the local scroll_count
    iterations,       \* loop iterations begun so far (history)
    stop_reason,      \* why the loop ended (history)
    last_obs,         \* what the last pass through the loop body saw (history)
    \* ---- adapters' scrape() (OnMapScraper, Yad2Scraper, MadlanScraper) ----
    sp_pc,            \* "idle" | "types" | "pages" | "done"
    adapter,          \* self.source of the adapter: "onmap" | "yad2" | "madlan"
    arg_types,        \* listing_types argument: <<>> for None, <<list>> else
    arg_limit,        \* limit argument: <<>> for None, <<n>> for n
    arg_cities,       \* cities argument: <<>> for None, <<list>> else
    delay_seconds,    \* self.delay_seconds of the adapter
    type_idx,         \* index of the listing type the for loop handles next
    page,             \* page of the pagination loop of _scrape_listing_type
    type_props,       \* all_properties local to _scrape_listing_type
    all_properties,   \* all_properties of scrape()
    stats_errors,     \* self.stats['errors'] of the adapter
    requests,         \* page requests issued so far, in order (history)
    failed_types,     \* type indices during which a browser call raised (history)
    error_types,      \* type indices for which scrape() counted an error (history)
    slept,            \* seconds of each sleep since the last request (history)
    \* ---- BaseIsraeliScraper.run ----
    r_pc,             \* position in run()
    browser,          \* self.browser: "none" | "open" | "closed"
    run_stats,        \* self.stats of the adapter
    scraped,          \* the list scrape() returned
    run_log,          \* rows of the remote table il_scraping_logs
    pending,          \* exception run() is propagating: "none" or its class
    runs,             \* invocations of run() on this adapter so far
    opened,           \* a browser was launched in this invocation (history)
    browser_at_scrape, \* self.browser when scrape() was entered (history)
    inv_errors,       \* errors counted by scrape() and save_to_db in this
                      \* invocation of run() (history)
    logged,           \* this invocation wrote its row of run_log (history)
    log_failed,       \* this invocation's write to run_log raised (history)
    \* ---- _parse_property_card ----
    p_pc,             \* "idle" | "card" | "parsed" | "reparsed" | "page" |
                      \* "page_parsed"
    p_adapter,        \* the adapter that parses the card
    p_listing_type,   \* the listing_type argument
    card,             \* what the probes find in the card
    clock,            \* datetime.now()
    first_prop,       \* result of the first extraction of the card
    second_prop,      \* result of a repeated extraction of the same card
    page_cards,       \* the cards found in a rendered page, in page order
    page_props        \* what _parse_properties returned for the page

orchVars == <<o_pc, env, adapter_returns, adapter_errors, stage_raised,
              stages_run, orch_stats, run_outcome, exit_code>>

storeVars == <<s_pc, store, next_id, properties, prop_idx, counts, outcomes,
               store_before, store_failed, calls, workers>>

scrollVars == <<sc_pc, sc_limit, scroll_count, iterations, stop_reason, last_obs>>

scrapeVars == <<sp_pc, adapter, arg_types, arg_limit, arg_cities,
                delay_seconds, type_idx, page, type_props, all_properties,
                stats_errors, requests, failed_types, error_types, slept>>

runVars == <<r_pc, browser, run_stats, scraped, run_log, pending, runs,
             opened, browser_at_scrape, inv_errors, logged, log_failed>>

parseVars == <<p_pc, p_adapter, p_listing_type, card, clock, first_prop,
               second_prop, page_cards, page_props>>

vars == <<orchVars, storeVars, scrollVars, scrapeVars, runVars, parseVars>>

(***************************************************************************)
(* Bounds of the model                                                     *)
(***************************************************************************)
MaxListings == 3      \* listings one adapter returns in a pipeline scenario
MaxBatch == 2         \* listings in one save_to_db call
MaxCalls == 2         \* save_to_db calls in one behaviour
MaxLimit == 2         \* largest limit argument drawn
MaxCount == 2         \* largest number of listing elements a query returns
MaxTypes == 2         \* longest listing_types list drawn
MaxRuns == 2          \* invocations of run() on one adapter instance
MaxPriceLen == 4      \* longest price text drawn
MaxAddrLen == 5       \* longest address text drawn
MaxCards == 3         \* most cards found in one rendered page
MaxWorkerBatch == 2   \* longest list held by an overlapping save_to_db

(***************************************************************************)
(* Orchestrator                                                            *)
(***************************************************************************)
Sources == <<"onmap", "yad2", "madlan">>
SourceSet == {Sources[i] : i \in 1..Len(Sources)}

\* required_vars of stage_1_initialize
RequiredVars == {"SUPABASE_URL", "SUPABASE_KEY", "ANTHROPIC_API_KEY"}

\* Mutant of Missing: only the data-store credentials are validated.
MissingStoreOnly(e) == {"SUPABASE_URL", "SUPABASE_KEY"} \ e

\* missing = [var for var in required_vars if not os.getenv(var)]
Missing(e) == RequiredVars \ e

\* errors an adapter's run() reports in its stats: none, some
AdapterErrorCounts == {0, 1}

\* ShamaiAIOrchestrator.__init__: self.stats
InitialOrchStats ==
    [sources_completed |-> <<>>, sources_failed |-> <<>>,
     total_properties |-> 0, errors |-> <<>>]

\* The stats a scrape stage merges.  The adapter invocation is pending in the
\* source (the call is commented out); the stage uses the literal
\* {'properties_scraped': 0, 'source': src} whatever the adapter would return.
PlaceholderStats(src, adapterListings) ==
    [properties_scraped |-> 0, source |-> src]

\* The orchestrator when a specification does not exercise it.
OrchIdle ==
    /\ o_pc = "idle"
    /\ env = {}
    /\ adapter_returns = [s \in SourceSet |-> 0]
    /\ adapter_errors = [s \in SourceSet |-> 0]
    /\ stage_raised = {}
    /\ stages_run = <<>>
    /\ orch_stats = InitialOrchStats
    /\ run_outcome = "running"
    /\ exit_code = -1

OrchStart ==
    /\ o_pc = "stage1"
    /\ env \in SUBSET RequiredVars
    /\ adapter_returns \in [SourceSet -> 0..MaxListings]
    /\ adapter_errors \in [SourceSet -> AdapterErrorCounts]
    /\ stage_raised = {}
    /\ stages_run = <<>>
    /\ orch_stats = InitialOrchStats
    /\ run_outcome = "running"
    /\ exit_code = -1

\* run()'s except clause: record "pipeline: <e>" and re-raise
RunExcept(st) == [st EXCEPT !.errors = Append(@, "pipeline")]

\* stage_1_initialize, called from run()
Stage1Initialize ==
    /\ o_pc = "stage1"
    /\ stages_run' = Append(stages_run, "stage1")
    /\ IF Missing(env) # {}
         THEN \* raise ValueError: escapes to run()'s except clause
              /\ orch_stats' = RunExcept(orch_stats)
              /\ run_outcome' = "raised"
              /\ o_pc' = "main_exit"
         ELSE /\ o_pc' = "stage2"
              /\ UNCHANGED <<orch_stats, run_outcome>>
    /\ UNCHANGED <<env, adapter_returns, adapter_errors, stage_raised,
                   exit_code>>
    /\ UNCHANGED <<storeVars, scrollVars, scrapeVars, runVars, parseVars>>

\* Mutant of StageExcept: the failed source is listed, no message is recorded.
StageExceptSilent(st, src) ==
    [st EXCEPT !.sources_failed = Append(@, src)]

\* except clause of a scrape stage
StageExcept(st, src) ==
    [st EXCEPT !.sources_failed = Append(@, src),
               !.errors = Append(@, src)]

\* Mutant of StageMerge: every completed stage counts one property.
StageMergeCountsOne(st, src, stats) ==
    [st EXCEPT !.sources_completed = Append(@, src),
               !.total_properties = @ + 1]

\* the try body of a scrape stage after the (pending) adapter invocation
StageMerge(st, src, stats) ==
    [st EXCEPT !.sources_completed = Append(@, src),
               !.total_properties = @ + stats.properties_scraped]

\* Mutant of ScrapeStage: no try/except, the exception escapes to run().
ScrapeStagePropagates(src, here, next, raises) ==
    /\ o_pc = here
    /\ stages_run' = Append(stages_run, here)
    /\ IF raises
         THEN /\ orch_stats' = RunExcept(orch_stats)
              /\ stage_raised' = stage_raised \cup {src}
              /\ run_outcome' = "raised"
              /\ o_pc' = "main_exit"
         ELSE /\ orch_stats' =
                   StageMerge(orch_stats, src,
                              PlaceholderStats(src, adapter_returns[src]))
              /\ o_pc' = next
              /\ UNCHANGED <<stage_raised, run_outcome>>
    /\ UNCHANGED <<env, adapter_returns, adapter_errors, exit_code>>
    /\ UNCHANGED <<storeVars, scrollVars, scrapeVars, runVars, parseVars>>

\* stage_2_scrape_onmap / stage_3_scrape_yad2 / stage_4_scrape_madlan.
\* raises: an exception is raised at the adapter invocation inside the try.
ScrapeStage(src, here, next, raises) ==
    /\ o_pc = here
    /\ stages_run' = Append(stages_run, here)
    /\ IF raises
         THEN /\ orch_stats' = StageExcept(orch_stats, src)
              /\ stage_raised' = stage_raised \cup {src}
         ELSE /\ orch_stats' =
                   StageMerge(orch_stats, src,
                              PlaceholderStats(src, adapter_returns[src]))
              /\ UNCHANGED stage_raised
    /\ o_pc' = next
    /\ UNCHANGED <<env, adapter_returns, adapter_errors, run_outcome,
                   exit_code>>
    /\ UNCHANGED <<storeVars, scrollVars, scrapeVars, runVars, parseVars>>

Stage2ScrapeOnmap ==
    \E raises \in BOOLEAN : ScrapeStage("onmap", "stage2", "stage3", raises)

Stage3ScrapeYad2 ==
    \E raises \in BOOLEAN : ScrapeStage("yad2", "stage3", "stage4", raises)

\* Mutant of Stage4ScrapeMadlan: the stage is entered again after it ends.
Stage4ScrapeMadlanAgain ==
    \E raises \in BOOLEAN : ScrapeStage("madlan", "stage4", "stage4", raises)

Stage4ScrapeMadlan ==
    \E raises \in BOOLEAN : ScrapeStage("madlan", "stage4", "stage5", raises)

\* stage_5_enrich_data and stage_6_analyze_market: pending, return a literal
Stage5EnrichData ==
    /\ o_pc = "stage5"
    /\ stages_run' = Append(stages_run, "stage5")
    /\ o_pc' = "stage6"
    /\ UNCHANGED <<env, adapter_returns, adapter_errors, stage_raised,
                   orch_stats, run_outcome, exit_code>>
    /\ UNCHANGED <<storeVars, scrollVars, scrapeVars, runVars, parseVars>>

Stage6AnalyzeMarket ==
    /\ o_pc = "stage6"
    /\ stages_run' = Append(stages_run, "stage6")
    /\ o_pc' = "stage7"
    /\ UNCHANGED <<env, adapter_returns, adapter_errors, stage_raised,
                   orch_stats, run_outcome, exit_code>>
    /\ UNCHANGED <<storeVars, scrollVars, scrapeVars, runVars, parseVars>>

\* stage_7_finalize, then run() returns self.stats
Stage7Finalize ==
    /\ o_pc = "stage7"
    /\ stages_run' = Append(stages_run, "stage7")
    /\ run_outcome' = "returned"
    /\ o_pc' = "main_exit"
    /\ UNCHANGED <<env, adapter_returns, adapter_errors, stage_raised,
                   orch_stats, exit_code>>
    /\ UNCHANGED <<storeVars, scrollVars, scrapeVars, runVars, parseVars>>

\* Mutant of ExitCodeOf: only a raised run() gives exit code 1.
ExitCodeIgnoresErrors(outcome, st) == IF outcome = "raised" THEN 1 ELSE 0

\* main(): the exit code chosen after run() returned or raised
ExitCodeOf(outcome, st) ==
    IF outcome = "raised" THEN 1
    ELSE IF Len(st.errors) > 0 THEN 1 ELSE 0

MainExit ==
    /\ o_pc = "main_exit"
    /\ exit_code' = ExitCodeOf(run_outcome, orch_stats)
    /\ o_pc' = "exited"
    /\ UNCHANGED <<env, adapter_returns, adapter_errors, stage_raised,
                   stages_run, orch_stats, run_outcome>>
    /\ UNCHANGED <<storeVars, scrollVars, scrapeVars, runVars, parseVars>>

OrchNext ==
    \/ Stage1Initialize
    \/ Stage2ScrapeOnmap
    \/ Stage3ScrapeYad2
    \/ Stage4ScrapeMadlan
    \/ Stage5EnrichData
    \/ Stage6AnalyzeMarket
    \/ Stage7Finalize
    \/ MainExit

(***************************************************************************)
(* Persistence gateway: save_to_db over the remote table il_properties     *)
(***************************************************************************)
StoreSources == {"onmap", "yad2"}
ExternalIds == {"a", "b"}
Prices == {1, 2}

\* A Property as save_to_db sees it: its natural key and its other fields
\* (price_current stands for the rest of the record).  Three natural keys are
\* drawn: two of one source, and one of another source with the same
\* external_id as one of them.
PropertySet ==
    {p \in [source : StoreSources, external_id : ExternalIds,
            price_current : Prices] :
        ~(p.source = "yad2" /\ p.external_id = "b")}

BoundedSeq(S, n) == UNION {[1..k -> S] : k \in 0..n}

KeyOf(r) == <<r.source, r.external_id>>
KeysOf(rows) == {KeyOf(r) : r \in rows}
SeqKeys(s, n) == {KeyOf(s[i]) : i \in 1..n}

\* Property.to_dict: the record sent to the store
ToDict(prop) ==
    [source |-> prop.source, external_id |-> prop.external_id,
     price_current |-> prop.price_current]

\* Mutant of Lookup: the select filters on external_id alone.
LookupByExternalId(rows, prop) ==
    {r \in rows : r.external_id = prop.external_id}

\* select('id').eq('source', prop.source).eq('external_id', prop.external_id)
Lookup(rows, prop) ==
    {r \in rows : r.source = prop.source /\ r.external_id = prop.external_id}

\* Mutant of UpdateRow: the update writes nothing.
UpdateRowSkipped(rows, id, d) == rows

\* update(prop_dict).eq('id', id): whole-record replace of the rows with that id
UpdateRow(rows, id, d) ==
    {r \in rows : r.id # id}
      \cup {[id |-> r.id, source |-> d.source, external_id |-> d.external_id,
             price_current |-> d.price_current] : r \in {x \in rows : x.id = id}}

\* insert(prop_dict): a new row with a fresh id
InsertRow(rows, id, d) ==
    rows \cup {[id |-> id, source |-> d.source, external_id |-> d.external_id,
                price_current |-> d.price_current]}

ZeroCounts == [new |-> 0, updated |-> 0, errors |-> 0]

\* Mutant of ErrorCounted: the except clause does not count.
ErrorNotCounted(c) == c

\* except Exception: counts['errors'] += 1
ErrorCounted(c) == [c EXCEPT !.errors = @ + 1]

\* the save_to_db invocations that overlap: two runs of an adapter
Workers == {1, 2}

\* no overlapping invocation has been called
StoreStart ==
    /\ workers = [w \in Workers |->
                    [pc |-> "idle", properties |-> <<>>, idx |-> 1,
                     existing |-> {}, counts |-> ZeroCounts]]
    /\ s_pc = "idle"
    /\ store = {}
    /\ next_id = 1
    /\ properties = <<>>
    /\ prop_idx = 1
    /\ counts = ZeroCounts
    /\ outcomes = <<>>
    /\ store_before = {}
    /\ store_failed = FALSE
    /\ calls = 0

\* Mutant of SaveToDbEntry: counts is kept across calls instead of being a
\* local initialised by each call.
SaveToDbEntryKeepsCounts(b) ==
    /\ properties' = b
    /\ s_pc' = IF b = <<>> THEN "returned" ELSE "loop"
    /\ prop_idx' = 1
    /\ counts' = counts
    /\ outcomes' = <<>>
    /\ store_before' = KeysOf(store)
    /\ calls' = calls + 1
    /\ UNCHANGED <<store, next_id, store_failed, workers>>

\* entry of save_to_db(b): an empty list returns zero counts at once
SaveToDbEntry(b) ==
    /\ properties' = b
    /\ s_pc' = IF b = <<>> THEN "returned" ELSE "loop"
    /\ prop_idx' = 1
    /\ counts' = ZeroCounts
    /\ outcomes' = <<>>
    /\ store_before' = KeysOf(store)
    /\ calls' = calls + 1
    /\ UNCHANGED <<store, next_id, store_failed, workers>>

\* save_to_db(properties) called with any list of properties
SaveToDbCall ==
    /\ s_pc \in {"idle", "returned"}
    /\ calls < MaxCalls
    /\ \E b \in BoundedSeq(PropertySet, MaxBatch) : SaveToDbEntry(b)
    /\ UNCHANGED <<orchVars, scrollVars, scrapeVars, runVars, parseVars>>

\* One iteration of the for loop.  fault: the store operation that raises,
\* "select" (the lookup), "write" (the update or insert) or "none".
SaveItem ==
    /\ s_pc = "loop"
    /\ prop_idx <= Len(properties)
    /\ \E fault \in {"none", "select", "write"} :
         LET prop == properties[prop_idx]
             existing == Lookup(store, prop)
         IN  IF fault # "none"
               THEN /\ counts' = ErrorCounted(counts)
                    /\ outcomes' = Append(outcomes, "error")
                    /\ store_failed' = TRUE
                    /\ UNCHANGED <<store, next_id>>
               ELSE IF existing # {}
               THEN \* existing.data[0]['id']: some row of the result
                    /\ \E row \in existing :
                          store' = UpdateRow(store, row.id, ToDict(prop))
                    /\ counts' = [counts EXCEPT !.updated = @ + 1]
                    /\ outcomes' = Append(outcomes, "updated")
                    /\ UNCHANGED <<next_id, store_failed>>
               ELSE /\ store' = InsertRow(store, next_id, ToDict(prop))
                    /\ next_id' = next_id + 1
                    /\ counts' = [counts EXCEPT !.new = @ + 1]
                    /\ outcomes' = Append(outcomes, "new")
                    /\ UNCHANGED store_failed
    /\ prop_idx' = prop_idx + 1
    /\ UNCHANGED <<s_pc, properties, store_before, calls, workers>>
    /\ UNCHANGED <<orchVars, scrollVars, scrapeVars, runVars, parseVars>>

\* the loop is exhausted: return counts
SaveReturn ==
    /\ s_pc = "loop"
    /\ prop_idx > Len(properties)
    /\ s_pc' = "returned"
    /\ UNCHANGED <<store, next_id, properties, prop_idx, counts, outcomes,
                   store_before, store_failed, calls, workers>>
    /\ UNCHANGED <<orchVars, scrollVars, scrapeVars, runVars, parseVars>>

StoreNext ==
    \/ SaveToDbCall
    \/ SaveItem
    \/ SaveReturn

(***************************************************************************)
(* Overlapping save_to_db invocations against the one remote table.  Each  *)
(* remote call (.execute()) is one step; the calls of different            *)
(* invocations interleave.                                                 *)
(***************************************************************************)
\* the lists the overlapping invocations hold: listings of one adapter
WorkerLists ==
    {b \in BoundedSeq(PropertySet, MaxWorkerBatch) :
        /\ b # <<>>
        /\ \A i \in 1..Len(b) : b[i].source = "onmap"}

\* both invocations have entered the for loop of save_to_db; the table
\* holds nothing or one row
ConcurrentStart ==
    /\ store \in {{}} \cup {InsertRow({}, 1, ToDict(p)) : p \in PropertySet}
    /\ next_id = Cardinality(store) + 1
    /\ store_before = KeysOf(store)
    /\ workers \in
          [Workers -> {[pc |-> "select", properties |-> b, idx |-> 1,
                        existing |-> {}, counts |-> ZeroCounts] :
                          b \in WorkerLists}]
    /\ s_pc = "idle"
    /\ properties = <<>>
    /\ prop_idx = 1
    /\ counts = ZeroCounts
    /\ outcomes = <<>>
    /\ store_failed = FALSE
    /\ calls = 0

\* the except clause of the loop body, then the next listing
WorkerExcept(st) ==
    [st EXCEPT !.counts = ErrorCounted(@), !.idx = @ + 1, !.pc = "select",
               !.existing = {}]

\* existing = ...select('id').eq('source').eq('external_id').execute()
WorkerSelect(w) ==
    /\ workers[w].pc = "select"
    /\ workers[w].idx <= Len(workers[w].properties)
    /\ \E raises \in BOOLEAN :
         LET st == workers[w]
             prop == st.properties[st.idx]
         IN  workers' =
               [workers EXCEPT ![w] =
                  IF raises THEN WorkerExcept(st)
                  ELSE [st EXCEPT !.existing =
                                     {r.id : r \in Lookup(store, prop)},
                                  !.pc = IF Lookup(store, prop) # {}
                                           THEN "update" ELSE "insert"]]
    /\ UNCHANGED <<s_pc, store, next_id, properties, prop_idx, counts,
                   outcomes, store_before, store_failed, calls>>
    /\ UNCHANGED <<orchVars, scrollVars, scrapeVars, runVars, parseVars>>

\* if existing.data: ...update(prop_dict).eq('id', existing.data[0]['id'])
WorkerUpdate(w) ==
    /\ workers[w].pc = "update"
    /\ \E raises \in BOOLEAN, id \in workers[w].existing :
         LET st == workers[w]
             prop == st.properties[st.idx]
         IN  IF raises
               THEN /\ workers' = [workers EXCEPT ![w] = WorkerExcept(st)]
                    /\ UNCHANGED store
               ELSE /\ store' = UpdateRow(store, id, ToDict(prop))
                    /\ workers' =
                          [workers EXCEPT ![w] =
                             [st EXCEPT !.counts.updated = @ + 1,
                                        !.idx = @ + 1, !.pc = "select",
                                        !.existing = {}]]
    /\ UNCHANGED <<s_pc, next_id, properties, prop_idx, counts, outcomes,
                   store_before, store_failed, calls>>
    /\ UNCHANGED <<orchVars, scrollVars, scrapeVars, runVars, parseVars>>

\* else: ...insert(prop_dict).execute()
WorkerInsert(w) ==
    /\ workers[w].pc = "insert"
    /\ \E raises \in BOOLEAN :
         LET st == workers[w]
             prop == st.properties[st.idx]
         IN  IF raises
               THEN /\ workers' = [workers EXCEPT ![w] = WorkerExcept(st)]
                    /\ UNCHANGED <<store, next_id>>
               ELSE /\ store' = InsertRow(store, next_id, ToDict(prop))
                    /\ next_id' = next_id + 1
                    /\ workers' =
                          [workers EXCEPT ![w] =
                             [st EXCEPT !.counts.new = @ + 1,
                                        !.idx = @ + 1, !.pc = "select",
                                        !.existing = {}]]
    /\ UNCHANGED <<s_pc, properties, prop_idx, counts, outcomes,
                   store_before, store_failed, calls>>
    /\ UNCHANGED <<orchVars, scrollVars, scrapeVars, runVars, parseVars>>

\* the loop is exhausted: return counts
WorkerReturn(w) ==
    /\ workers[w].pc = "select"
    /\ workers[w].idx > Len(workers[w].properties)
    /\ workers' = [workers EXCEPT ![w].pc = "returned"]
    /\ UNCHANGED <<s_pc, store, next_id, properties, prop_idx, counts,
                   outcomes, store_before, store_failed, calls>>
    /\ UNCHANGED <<orchVars, scrollVars, scrapeVars, runVars, parseVars>>

ConcurrentNext ==
    \/ \E w \in Workers : WorkerSelect(w)
    \/ \E w \in Workers : WorkerUpdate(w)
    \/ \E w \in Workers : WorkerInsert(w)
    \/ \E w \in Workers : WorkerReturn(w)

(***************************************************************************)
(* The limit argument (Optional[int]) of scrape() and of the strategies    *)
(***************************************************************************)
NoLimit == <<>>
Limits == {NoLimit} \cup {<<n>> : n \in 0..MaxLimit}

\* Python truth value of the limit argument: None and 0 are false
Truthy(limit) == limit # NoLimit /\ limit[1] # 0

(***************************************************************************)
(* Incremental scroll: OnMapScraper._scroll_to_load_all                    *)
(***************************************************************************)
DefaultMaxScrolls == 50

\* max_scrolls = limit if limit else 50
MaxScrolls(limit) == IF Truthy(limit) THEN limit[1] ELSE DefaultMaxScrolls

\* Mutant of LoopGuard: off-by-one loop condition.
LoopGuardInclusive(count, max) == count <= max

\* while scroll_count < max_scrolls
LoopGuard(count, max) == count < max

\* last_obs before the first pass through the loop body
NoObservation ==
    [current_count |-> 0, bottom |-> "absent", new_count |-> 0,
     fault |-> "none"]

ScrollIdle ==
    /\ sc_pc = "idle"
    /\ sc_limit = NoLimit
    /\ scroll_count = 0
    /\ iterations = 0
    /\ stop_reason = "none"
    /\ last_obs = NoObservation

\* entry of _scroll_to_load_all with any limit
ScrollStart ==
    /\ sc_pc = "loop"
    /\ sc_limit \in Limits
    /\ scroll_count = 0
    /\ iterations = 0
    /\ stop_reason = "none"
    /\ last_obs = NoObservation

\* Mutant of BodyOutcome: the re-count is compared before the end-of-results
\* marker is looked for.
BodyOutcomeRecountFirst(current_count, bottom, new_count, fault) ==
    IF fault = "query" THEN "error"
    ELSE IF current_count = 0 THEN "empty"
    ELSE IF fault \in {"scroll", "wait", "requery"} THEN "error"
    ELSE IF new_count = current_count THEN "stuck"
    ELSE IF bottom = "found" THEN "marker"
    ELSE "continue"

\* How one pass through the loop body ends, for the page's behaviour in it:
\*   current_count, new_count: results of the two query_selector_all calls
\*   bottom: "found" | "absent" | "raises" for the end-of-results query
\*   fault: the awaited call that raises, or "none"
\* Result: "continue" (scroll_count += 1) or the reason of the break.
BodyOutcome(current_count, bottom, new_count, fault) ==
    IF fault = "query" THEN "error"
    ELSE IF current_count = 0 THEN "empty"
    ELSE IF fault \in {"scroll", "wait"} THEN "error"
    ELSE IF bottom = "found" THEN "marker"
    ELSE IF fault = "requery" THEN "error"
    ELSE IF new_count = current_count THEN "stuck"
    ELSE "continue"

\* one iteration of the while loop
ScrollIteration ==
    /\ sc_pc = "loop"
    /\ LoopGuard(scroll_count, MaxScrolls(sc_limit))
    /\ iterations' = iterations + 1
    /\ \E current_count \in 0..MaxCount, new_count \in 0..MaxCount,
          bottom \in {"found", "absent", "raises"},
          fault \in {"none", "query", "scroll", "wait", "requery"} :
         LET out == BodyOutcome(current_count, bottom, new_count, fault)
         IN  /\ last_obs' = [current_count |-> current_count,
                             bottom |-> bottom, new_count |-> new_count,
                             fault |-> fault]
             /\ IF out = "continue"
                  THEN /\ scroll_count' = scroll_count + 1
                       /\ UNCHANGED <<sc_pc, stop_reason>>
                  ELSE /\ sc_pc' = "done"
                       /\ stop_reason' = out
                       /\ UNCHANGED scroll_count
    /\ UNCHANGED sc_limit
    /\ UNCHANGED <<orchVars, storeVars, scrapeVars, runVars, parseVars>>

\* the loop condition fails: the scroll cap is reached
ScrollCapReached ==
    /\ sc_pc = "loop"
    /\ ~LoopGuard(scroll_count, MaxScrolls(sc_limit))
    /\ sc_pc' = "done"
    /\ stop_reason' = "cap"
    /\ UNCHANGED <<sc_limit, scroll_count, iterations, last_obs>>
    /\ UNCHANGED <<orchVars, storeVars, scrapeVars, runVars, parseVars>>

ScrollNext ==
    \/ ScrollIteration
    \/ ScrollCapReached

(***************************************************************************)
(* Source adapters: scrape() and the paginated _scrape_listing_type        *)
(***************************************************************************)
Adapters == {"onmap", "yad2", "madlan"}

\* the keys of the class attribute URLS
URLS(a) ==
    CASE a = "onmap" -> {"buy", "rent", "commercial", "new_homes"}
      [] a = "yad2" -> {"buy", "rent", "commercial"}
      [] a = "madlan" -> {"buy", "rent"}

\* listing_types when the argument is None
DefaultTypes(a) ==
    IF a = "onmap" THEN <<"buy", "rent", "commercial", "new_homes">>
    ELSE <<"buy", "rent">>

\* listing type names drawn for the argument: known to all adapters, known
\* to OnMap alone, known to none
TypeNames == {"buy", "rent", "new_homes", "land"}

NoTypes == <<>>
TypeArgs == {NoTypes} \cup {<<s>> : s \in BoundedSeq(TypeNames, MaxTypes)}

\* if listing_types is None: listing_types = [...]
ListingTypes(a, arg) == IF arg = NoTypes THEN DefaultTypes(a) ELSE arg[1]

\* Mutant of KnownType: the membership test is missing.
KnownTypeAlways(a, t) == TRUE

\* not (listing_type not in self.URLS)
KnownType(a, t) == t \in URLS(a)

Yad2DefaultPages == 5
MadlanDefaultPages == 3

\* Mutant of MaxPages: the loop runs range(1, max_pages + 2).
MaxPagesOneMore(a, limit) ==
    1 + (IF Truthy(limit) THEN limit[1]
         ELSE IF a = "yad2" THEN Yad2DefaultPages ELSE MadlanDefaultPages)

\* max_pages = limit or 5 (Yad2), limit or 3 (Madlan)
MaxPages(a, limit) ==
    IF Truthy(limit) THEN limit[1]
    ELSE IF a = "yad2" THEN Yad2DefaultPages ELSE MadlanDefaultPages

\* numbers of listings parsed from one rendered page: none, some
PageYields == {0, 1}

\* What rendering and parsing one page gives: the browser call raises, or
\* the page is parsed into yield listings.
PageResults ==
    {[raises |-> TRUE, yield |-> 0]}
      \cup {[raises |-> FALSE, yield |-> n] : n \in PageYields}

\* The cities argument (Optional[List[str]]).  "he:haifa" stands for the
\* Hebrew name of Haifa, a key of Madlan's city_map; "Bat Yam" is not a key.
NoCities == <<>>
CityArgs ==
    {NoCities, << <<>> >>, << <<"Bat Yam">> >>,
     << <<"Bat Yam", "he:haifa">> >>}

\* Python truth value of the cities argument: None and [] are false
CitiesGiven(cities) == cities # NoCities /\ cities[1] # <<>>

\* the address_city extracted from a card: absent (<<>>) or a city name
ListingCities == {<<>>, <<"he:haifa">>, <<"Bat Yam">>}

\* Mutant of CityFilter: a listing without an extracted city is kept.
CityFilterKeepsUnknown(cities, props) ==
    IF CitiesGiven(cities)
      THEN SelectSeq(props,
              LAMBDA l : \/ l.address_city = <<>>
                         \/ \E j \in 1..Len(cities[1]) :
                               <<cities[1][j]>> = l.address_city)
    ELSE props

\* OnMap: if cities: properties = [p for p in properties
\*                                if p.address_city in cities]
CityFilter(cities, props) ==
    IF CitiesGiven(cities)
      THEN SelectSeq(props,
              LAMBDA l : \E j \in 1..Len(cities[1]) :
                            <<cities[1][j]>> = l.address_city)
    ELSE props

\* Madlan: city_map.get(cities[0], cities[0].lower().replace(' ', '-'))
MadlanCitySlug(c) ==
    CASE c = "he:haifa" -> "haifa"
      [] c = "Bat Yam" -> "bat-yam"

\* Mutant of CityScope: the last requested city scopes the query.
CityScopeLast(a, cities) ==
    IF a = "onmap" \/ ~CitiesGiven(cities) THEN <<>>
    ELSE IF a = "yad2" THEN <<cities[1][Len(cities[1])]>>
    ELSE <<MadlanCitySlug(cities[1][Len(cities[1])])>>

\* The city part of the URLs of _scrape_listing_type: cities[0] as the query
\* parameter city (Yad2), its slug as a path segment (Madlan), none when
\* cities is None or empty; OnMap's URLs carry no city.
CityScope(a, cities) ==
    IF a = "onmap" \/ ~CitiesGiven(cities) THEN <<>>
    ELSE IF a = "yad2" THEN <<cities[1][1]>>
    ELSE <<MadlanCitySlug(cities[1][1])>>

\* The URL of a request: self.URLS[t], the city part and the page parameter
\* (OnMap's URLs have none: page_param is <<>>).
PageUrl(a, t, cities, p) ==
    [base |-> t, scope |-> CityScope(a, cities),
     page_param |-> IF a = "onmap" THEN <<>> ELSE <<p>>]

\* the Property objects parsed from page p of the i-th requested type; c is
\* the address_city extracted from their cards
PageListings(a, t, i, p, n, c) ==
    [k \in 1..n |->
       [source |-> a, listing_type |-> t, type_idx |-> i, page |-> p, k |-> k,
        address_city |-> c]]

\* delay_seconds: the default of __init__ and the values drawn for it
DefaultDelaySeconds == 2
DelayValues == {DefaultDelaySeconds, 5}

ScrapeIdle ==
    /\ sp_pc = "idle"
    /\ adapter = "onmap"
    /\ arg_types = NoTypes
    /\ arg_limit = NoLimit
    /\ arg_cities = NoCities
    /\ delay_seconds = DefaultDelaySeconds
    /\ type_idx = 1
    /\ page = 1
    /\ type_props = <<>>
    /\ all_properties = <<>>
    /\ stats_errors = 0
    /\ requests = <<>>
    /\ failed_types = {}
    /\ error_types = {}
    /\ slept = <<>>

\* entry of scrape() on a new adapter instance.  The cities and the delay
\* do not interact in the code: one of the two is varied at a time.
ScrapeStart ==
    /\ sp_pc = "types"
    /\ adapter \in Adapters
    /\ arg_types \in TypeArgs
    /\ arg_limit \in Limits
    /\ arg_cities \in CityArgs
    /\ delay_seconds \in DelayValues
    /\ arg_cities = NoCities \/ delay_seconds = DefaultDelaySeconds
    /\ type_idx = 1
    /\ page = 1
    /\ type_props = <<>>
    /\ all_properties = <<>>
    /\ stats_errors = 0
    /\ requests = <<>>
    /\ failed_types = {}
    /\ error_types = {}
    /\ slept = <<>>

CurrentTypes == ListingTypes(adapter, arg_types)

\* the adapter's configuration and the arguments of the scrape() call
scrapeArgs == <<adapter, arg_types, arg_limit, arg_cities, delay_seconds>>

\* Mutant of PageSleep: the pagination loop awaits rate_limit().
PageSleepConfigured(delay) == delay

\* seconds slept between two pages: await asyncio.sleep(2)
PageSleep(delay) == 2

\* seconds slept by rate_limit(): await asyncio.sleep(self.delay_seconds)
RateLimit(delay) == delay

\* for loop of scrape(): an unknown listing type is skipped with a warning
SkipUnknownType ==
    /\ sp_pc = "types"
    /\ type_idx <= Len(CurrentTypes)
    /\ ~KnownType(adapter, CurrentTypes[type_idx])
    /\ type_idx' = type_idx + 1
    /\ UNCHANGED <<scrapeArgs, sp_pc, page, type_props, all_properties,
                   stats_errors, requests, failed_types, error_types, slept>>
    /\ UNCHANGED <<orchVars, storeVars, scrollVars, runVars, parseVars>>

\* for loop of scrape(), OnMap: _scrape_listing_type loads the one page
\* (goto, wait, scroll loop, content, parse), then scrape() filters the
\* result by city and awaits rate_limit().  fault: the browser call that
\* raises out of _scrape_listing_type, or "none"; n: listings parsed; c:
\* their city.
OnMapScrapeType ==
    /\ sp_pc = "types"
    /\ adapter = "onmap"
    /\ type_idx <= Len(CurrentTypes)
    /\ KnownType(adapter, CurrentTypes[type_idx])
    /\ \E fault \in {"none", "goto", "content"}, n \in PageYields,
          c \in ListingCities :
         IF fault # "none"
           THEN \* except Exception in scrape(): self.stats['errors'] += 1
                /\ requests' = Append(requests,
                      [type_idx |-> type_idx, page |-> 1, raises |-> TRUE,
                       yield |-> 0, city |-> <<>>,
                       url |-> PageUrl(adapter, CurrentTypes[type_idx],
                                       arg_cities, 1),
                       delays |-> slept])
                /\ stats_errors' = stats_errors + 1
                /\ failed_types' = failed_types \cup {type_idx}
                /\ error_types' = error_types \cup {type_idx}
                /\ slept' = <<>>
                /\ UNCHANGED all_properties
           ELSE /\ requests' = Append(requests,
                      [type_idx |-> type_idx, page |-> 1, raises |-> FALSE,
                       yield |-> n, city |-> IF n = 0 THEN <<>> ELSE c,
                       url |-> PageUrl(adapter, CurrentTypes[type_idx],
                                       arg_cities, 1),
                       delays |-> slept])
                /\ all_properties' = all_properties \o
                      CityFilter(arg_cities,
                         PageListings(adapter, CurrentTypes[type_idx],
                                      type_idx, 1, n, c))
                /\ slept' = <<RateLimit(delay_seconds)>>
                /\ UNCHANGED <<stats_errors, failed_types, error_types>>
    /\ type_idx' = type_idx + 1
    /\ UNCHANGED <<scrapeArgs, sp_pc, page, type_props>>
    /\ UNCHANGED <<orchVars, storeVars, scrollVars, runVars, parseVars>>

\* for loop of scrape(), Yad2 and Madlan: enter _scrape_listing_type
EnterPagination ==
    /\ sp_pc = "types"
    /\ adapter # "onmap"
    /\ type_idx <= Len(CurrentTypes)
    /\ KnownType(adapter, CurrentTypes[type_idx])
    /\ sp_pc' = "pages"
    /\ page' = 1
    /\ type_props' = <<>>
    /\ UNCHANGED <<scrapeArgs, type_idx, all_properties, stats_errors,
                   requests, failed_types, error_types, slept>>
    /\ UNCHANGED <<orchVars, storeVars, scrollVars, runVars, parseVars>>

\* Mutant of LeavePagination: what the listing type collected is discarded.
LeavePaginationEmpty(props) ==
    /\ all_properties' = all_properties
    /\ type_idx' = type_idx + 1
    /\ sp_pc' = "types"
    /\ page' = 1
    /\ type_props' = <<>>

\* back in scrape() after _scrape_listing_type returned props
LeavePagination(props) ==
    /\ all_properties' = all_properties \o props
    /\ type_idx' = type_idx + 1
    /\ sp_pc' = "types"
    /\ page' = 1
    /\ type_props' = <<>>

\* one pass of 'for page in range(1, max_pages + 1)': _scrape_page renders
\* and parses the page; it catches every exception and returns [] then; an
\* empty result breaks the loop, and scrape() awaits rate_limit(); after a
\* page with listings the loop sleeps.  The paginated adapters never read
\* the extracted city of a listing: their listings are drawn without one.
ScrapePage ==
    /\ sp_pc = "pages"
    /\ page <= MaxPages(adapter, arg_limit)
    /\ \E res \in PageResults :
         /\ requests' = Append(requests,
               [type_idx |-> type_idx, page |-> page, raises |-> res.raises,
                yield |-> res.yield, city |-> <<>>,
                url |-> PageUrl(adapter, CurrentTypes[type_idx], arg_cities,
                                page),
                delays |-> slept])
         /\ failed_types' =
               IF res.raises THEN failed_types \cup {type_idx}
               ELSE failed_types
         /\ IF res.yield = 0
              THEN /\ LeavePagination(type_props)
                   /\ slept' = <<RateLimit(delay_seconds)>>
              ELSE /\ type_props' = type_props \o
                         PageListings(adapter, CurrentTypes[type_idx],
                                      type_idx, page, res.yield, <<>>)
                   /\ page' = page + 1
                   /\ slept' = <<PageSleep(delay_seconds)>>
                   /\ UNCHANGED <<sp_pc, type_idx, all_properties>>
    /\ UNCHANGED <<scrapeArgs, stats_errors, error_types>>
    /\ UNCHANGED <<orchVars, storeVars, scrollVars, runVars, parseVars>>

\* the page range is exhausted: _scrape_listing_type returns and scrape()
\* awaits rate_limit()
PaginationCap ==
    /\ sp_pc = "pages"
    /\ page > MaxPages(adapter, arg_limit)
    /\ LeavePagination(type_props)
    /\ slept' = Append(slept, RateLimit(delay_seconds))
    /\ UNCHANGED <<scrapeArgs, stats_errors, requests, failed_types,
                   error_types>>
    /\ UNCHANGED <<orchVars, storeVars, scrollVars, runVars, parseVars>>

\* the for loop over listing types is exhausted: return all_properties
ScrapeReturn ==
    /\ sp_pc = "types"
    /\ type_idx > Len(CurrentTypes)
    /\ sp_pc' = "done"
    /\ UNCHANGED <<scrapeArgs, type_idx, page, type_props, all_properties,
                   stats_errors, requests, failed_types, error_types, slept>>
    /\ UNCHANGED <<orchVars, storeVars, scrollVars, runVars, parseVars>>

ScrapeNext ==
    \/ SkipUnknownType
    \/ OnMapScrapeType
    \/ EnterPagination
    \/ ScrapePage
    \/ PaginationCap
    \/ ScrapeReturn

(***************************************************************************)
(* Adapter workflow: BaseIsraeliScraper.run                                *)
(***************************************************************************)
\* what the adapter's scrape() can return: properties of its own source
\* (two listings, told apart by external_id)
RunProperties ==
    {p \in PropertySet : p.source = "onmap" /\ p.price_current = 1}

\* errors scrape() adds to self.stats['errors'] before it returns
ScrapeErrorCounts == {0, 1}

InitialStats ==
    [properties_scraped |-> 0, properties_new |-> 0,
     properties_updated |-> 0, errors |-> 0]

\* log_data of log_scrape_session
LogData(st) ==
    [source |-> "onmap",
     properties_scraped |-> st.properties_scraped,
     properties_new |-> st.properties_new,
     properties_updated |-> st.properties_updated,
     errors_count |-> st.errors,
     status |-> IF st.errors = 0 THEN "completed"
                ELSE "completed_with_errors"]

\* Mutant of CloseBrowserState: close_browser does nothing.
CloseBrowserStateNoop(b) == b

\* close_browser: if self.browser: await self.browser.close()
CloseBrowserState(b) == IF b = "none" THEN "none" ELSE "closed"

\* the adapter after __init__
RunStart ==
    /\ r_pc = "idle"
    /\ browser = "none"
    /\ run_stats = InitialStats
    /\ scraped = <<>>
    /\ run_log = <<>>
    /\ pending = "none"
    /\ runs = 0
    /\ opened = FALSE
    /\ browser_at_scrape = "n/a"
    /\ inv_errors = 0
    /\ logged = FALSE
    /\ log_failed = FALSE

RunIdle == RunStart

\* run() is called (again) on the adapter
ScraperRunCall ==
    /\ r_pc \in {"idle", "returned", "raised"}
    /\ runs < MaxRuns
    /\ runs' = runs + 1
    /\ r_pc' = "init"
    /\ pending' = "none"
    /\ opened' = FALSE
    /\ browser_at_scrape' = "n/a"
    /\ inv_errors' = 0
    /\ logged' = FALSE
    /\ log_failed' = FALSE
    /\ UNCHANGED <<browser, run_stats, scraped, run_log>>
    /\ UNCHANGED <<orchVars, storeVars, scrollVars, scrapeVars, parseVars>>

\* await self.init_browser().  outcome: "ok", or where it raises: before
\* self.browser is assigned ("launch": start() or launch() raises) or after
\* ("context": new_context, add_init_script or new_page raises).
InitBrowser ==
    /\ r_pc = "init"
    /\ \E outcome \in {"ok", "launch", "context"} :
         /\ browser' = IF outcome = "launch" THEN browser ELSE "open"
         /\ opened' = (outcome # "launch")
         /\ r_pc' = IF outcome = "ok" THEN "scrape" ELSE "except"
    /\ UNCHANGED <<run_stats, scraped, run_log, pending, runs,
                   browser_at_scrape, inv_errors, logged, log_failed>>
    /\ UNCHANGED <<orchVars, storeVars, scrollVars, scrapeVars, parseVars>>

\* properties = await self.scrape(...); properties_scraped = len(properties).
\* scrape() returns a list after counting e errors, or raises an Exception,
\* or a BaseException (cancellation) passes through it.
Scrape ==
    /\ r_pc = "scrape"
    /\ browser_at_scrape' = browser
    /\ \E outcome \in {"return", "Exception", "BaseException"} :
         CASE outcome = "return" ->
                \E b \in BoundedSeq(RunProperties, MaxBatch),
                   e \in ScrapeErrorCounts :
                   /\ scraped' = b
                   /\ run_stats' =
                        [run_stats EXCEPT !.properties_scraped = Len(b),
                                          !.errors = @ + e]
                   /\ inv_errors' = inv_errors + e
                   /\ r_pc' = IF b # <<>> THEN "save" ELSE "log"
                   /\ UNCHANGED pending
           [] outcome = "Exception" ->
                /\ r_pc' = "except"
                /\ UNCHANGED <<scraped, run_stats, pending, inv_errors>>
           [] outcome = "BaseException" ->
                /\ r_pc' = "finally"
                /\ pending' = "BaseException"
                /\ UNCHANGED <<scraped, run_stats, inv_errors>>
    /\ UNCHANGED <<browser, run_log, runs, opened, logged, log_failed>>
    /\ UNCHANGED <<orchVars, storeVars, scrollVars, scrapeVars, parseVars>>

\* if properties: counts = await self.save_to_db(properties)  (entry)
RunSaveCall ==
    /\ r_pc = "save"
    /\ SaveToDbEntry(scraped)
    /\ r_pc' = "saving"
    /\ UNCHANGED <<browser, run_stats, scraped, run_log, pending, runs,
                   opened, browser_at_scrape, inv_errors, logged, log_failed>>
    /\ UNCHANGED <<orchVars, scrollVars, scrapeVars, parseVars>>

\* Mutant of RunSaved: the save errors are added to the errors scrape()
\* counted instead of replacing them.
RunSavedAccumulates ==
    /\ r_pc = "saving"
    /\ s_pc = "returned"
    /\ run_stats' = [run_stats EXCEPT !.properties_new = counts.new,
                                      !.properties_updated = counts.updated,
                                      !.errors = @ + counts.errors]
    /\ inv_errors' = inv_errors + counts.errors
    /\ r_pc' = "log"
    /\ UNCHANGED <<browser, scraped, run_log, pending, runs, opened,
                   browser_at_scrape, logged, log_failed>>
    /\ UNCHANGED <<orchVars, storeVars, scrollVars, scrapeVars, parseVars>>

\* save_to_db returned: the three assignments from counts
RunSaved ==
    /\ r_pc = "saving"
    /\ s_pc = "returned"
    /\ run_stats' = [run_stats EXCEPT !.properties_new = counts.new,
                                      !.properties_updated = counts.updated,
                                      !.errors = counts.errors]
    /\ inv_errors' = inv_errors + counts.errors
    /\ r_pc' = "log"
    /\ UNCHANGED <<browser, scraped, run_log, pending, runs, opened,
                   browser_at_scrape, logged, log_failed>>
    /\ UNCHANGED <<orchVars, storeVars, scrollVars, scrapeVars, parseVars>>

\* Mutant of AfterLog: a failed insert propagates to run()'s except clause.
AfterLogRaises(fails) == IF fails THEN "except" ELSE "finally"

\* where run() continues after log_scrape_session: its except Exception
\* clause only logs, so run() goes on to 'return self.stats' either way
AfterLog(fails) == "finally"

\* await self.log_scrape_session(); return self.stats.  The insert may
\* raise; log_scrape_session catches it.
LogScrapeSession ==
    /\ r_pc = "log"
    /\ \E fails \in BOOLEAN :
         /\ run_log' = IF fails THEN run_log
                       ELSE Append(run_log, LogData(run_stats))
         /\ logged' = ~fails
         /\ log_failed' = fails
         /\ r_pc' = AfterLog(fails)
    /\ UNCHANGED <<browser, run_stats, scraped, pending, runs, opened,
                   browser_at_scrape, inv_errors>>
    /\ UNCHANGED <<orchVars, storeVars, scrollVars, scrapeVars, parseVars>>

\* except Exception: self.stats['errors'] += 1; raise
ScraperRunExcept ==
    /\ r_pc = "except"
    /\ run_stats' = [run_stats EXCEPT !.errors = @ + 1]
    /\ pending' = "Exception"
    /\ r_pc' = "finally"
    /\ UNCHANGED <<browser, scraped, run_log, runs, opened,
                   browser_at_scrape, inv_errors, logged, log_failed>>
    /\ UNCHANGED <<orchVars, storeVars, scrollVars, scrapeVars, parseVars>>

\* finally: await self.close_browser(); then run() returns or raises
RunFinally ==
    /\ r_pc = "finally"
    /\ browser' = CloseBrowserState(browser)
    /\ r_pc' = IF pending = "none" THEN "returned" ELSE "raised"
    /\ UNCHANGED <<run_stats, scraped, run_log, pending, runs, opened,
                   browser_at_scrape, inv_errors, logged, log_failed>>
    /\ UNCHANGED <<orchVars, storeVars, scrollVars, scrapeVars, parseVars>>

RunNext ==
    \/ ScraperRunCall
    \/ InitBrowser
    \/ Scrape
    \/ RunSaveCall
    \/ SaveItem
    \/ SaveReturn
    \/ RunSaved
    \/ LogScrapeSession
    \/ ScraperRunExcept
    \/ RunFinally

(***************************************************************************)
(* Card parsing: _parse_property_card of the three adapters.  A text is a  *)
(* sequence of characters; an Optional value is <<>> (None) or <<v>>.      *)
(***************************************************************************)
None == <<>>
Some(v) == <<v>>

DigitChars == <<"0", "1", "2", "3", "4", "5", "6", "7", "8", "9">>
IsDigit(c) == \E i \in 1..Len(DigitChars) : DigitChars[i] = c
DigitValue(c) == (CHOOSE i \in 1..Len(DigitChars) : DigitChars[i] = c) - 1

\* the greedy match of \d+ at the start of s
RECURSIVE LeadingDigits(_)
LeadingDigits(s) ==
    IF s = <<>> \/ ~IsDigit(Head(s)) THEN <<>>
    ELSE <<Head(s)>> \o LeadingDigits(Tail(s))

\* re.sub(r'[^\d]', '', text)
StripNonDigits(s) == SelectSeq(s, IsDigit)

\* int(text) of a non-empty string of digits
RECURSIVE ToInt(_)
ToInt(ds) ==
    IF ds = <<>> THEN 0
    ELSE 10 * ToInt(SubSeq(ds, 1, Len(ds) - 1)) + DigitValue(ds[Len(ds)])

\* str(n) of a natural number
RECURSIVE DecimalDigits(_)
DecimalDigits(n) ==
    IF n < 10 THEN <<DigitChars[n + 1]>>
    ELSE DecimalDigits(n \div 10) \o <<DigitChars[(n % 10) + 1]>>

\* The text the price probe hands to the conversion.  raw: the text of the
\* card's price element, None when the card has none.  OnMap and Yad2 look
\* the element up by its class; Madlan looks for a string with the currency
\* sign and takes the text of its parent.
PriceProbe(a, raw) ==
    IF raw = None THEN None
    ELSE IF a = "madlan" /\ ~(\E i \in 1..Len(raw[1]) : raw[1][i] = "sign")
      THEN None
    ELSE raw

\* price = None; if price_text: price = int(price_text)
PriceOf(text) ==
    IF text = None THEN None
    ELSE IF StripNonDigits(text[1]) = <<>> THEN None
    ELSE Some(ToInt(StripNonDigits(text[1])))

\* str.strip() for the whitespace character " "
RECURSIVE Trim(_)
Trim(s) ==
    IF s = <<>> THEN s
    ELSE IF Head(s) = " " THEN Trim(Tail(s))
    ELSE IF s[Len(s)] = " " THEN Trim(SubSeq(s, 1, Len(s) - 1))
    ELSE s

\* str.split(','): the segments between the commas, at least one
RECURSIVE SplitComma(_)
SplitComma(s) ==
    IF \A i \in 1..Len(s) : s[i] # "," THEN <<s>>
    ELSE LET i == CHOOSE k \in 1..Len(s) :
                     s[k] = "," /\ \A j \in 1..(k - 1) : s[j] # ","
         IN  <<SubSeq(s, 1, i - 1)>> \o SplitComma(SubSeq(s, i + 1, Len(s)))

\* ', '.join(parts)
RECURSIVE JoinCommaSpace(_)
JoinCommaSpace(parts) ==
    IF parts = <<>> THEN <<>>
    ELSE IF Len(parts) = 1 THEN parts[1]
    ELSE parts[1] \o <<",", " ">> \o JoinCommaSpace(Tail(parts))

\* [p.strip() for p in address.split(',')]
TrimmedParts(s) == [i \in 1..Len(SplitComma(s)) |-> Trim(SplitComma(s)[i])]

\* the street taken from two or more segments: parts[0] in OnMap and Yad2,
\* ', '.join(parts[:-1]) in Madlan
StreetOfParts(a, parts) ==
    IF a = "madlan" THEN JoinCommaSpace(SubSeq(parts, 1, Len(parts) - 1))
    ELSE parts[1]

\* Address decomposition.  raw: the text of the card's address element, None
\* when the card has none.
AddressOf(a, raw) ==
    IF raw = None THEN [street |-> None, city |-> None]
    ELSE LET address == Trim(raw[1])
             parts == TrimmedParts(address)
         IN  IF address # <<>> /\ Len(parts) >= 2
               THEN [street |-> Some(StreetOfParts(a, parts)),
                     city |-> Some(parts[Len(parts)])]
               ELSE [street |-> Some(address), city |-> None]

\* the index of the last "/" of an href, 0 when it has none
LastSlash(h) ==
    IF \A i \in 1..Len(h) : h[i] # "/" THEN 0
    ELSE CHOOSE k \in 1..Len(h) :
            h[k] = "/" /\ \A j \in (k + 1)..Len(h) : h[j] # "/"

\* re.search(r'/(\d+)$', href) of Yad2: the digits that end the href after
\* its last "/", None when there is no match
Yad2LinkId(h) ==
    IF /\ LastSlash(h) > 0
       /\ LastSlash(h) < Len(h)
       /\ \A j \in (LastSlash(h) + 1)..Len(h) : IsDigit(h[j])
      THEN Some(SubSeq(h, LastSlash(h) + 1, Len(h)))
    ELSE None

\* re.search(r'/listing/(\d+)', href) of Madlan ("listing" is one character
\* of the href alphabet): the digits that follow the first /listing/
MadlanLinkId(h) ==
    LET starts == {i \in 1..(Len(h) - 3) :
                      /\ h[i] = "/" /\ h[i + 1] = "listing" /\ h[i + 2] = "/"
                      /\ IsDigit(h[i + 3])}
    IN  IF starts = {} THEN None
        ELSE LET i == CHOOSE k \in starts : \A m \in starts : k <= m
             IN  Some(LeadingDigits(SubSeq(h, i + 3, Len(h))))

\* The numeric id the adapter takes from the card's hyperlink.  href: the
\* href of the first <a href> of the card, None when the card has none.
\* OnMap does not look at the hyperlink.
LinkId(a, href) ==
    IF href = None \/ a = "onmap" THEN None
    ELSE IF a = "yad2" THEN Yad2LinkId(href[1])
    ELSE MadlanLinkId(href[1])

\* how an f-string renders an Optional[str] and an Optional[int]
FormatText(x) == IF x = None THEN <<"None">> ELSE x[1]
FormatInt(x) == IF x = None THEN <<"None">> ELSE DecimalDigits(x[1])

\* Mutant of CompositeId: the extraction time is part of the key.
CompositeIdStamped(a, lt, street, price, sqm) ==
    <<a, "_", lt, "_">> \o FormatText(street) \o <<"_">> \o FormatInt(price)
      \o <<"_">> \o DecimalDigits(clock)

\* f"onmap_{listing_type}_{street}_{price}_{sqm}", the same with yad2, and
\* f"madlan_{listing_type}_{street}_{price}"
CompositeId(a, lt, street, price, sqm) ==
    <<a, "_", lt, "_">> \o FormatText(street) \o <<"_">> \o FormatInt(price)
      \o (IF a = "madlan" THEN <<>> ELSE <<"_">> \o FormatInt(sqm))

\* Mutant of ExternalIdOf: an id found in the hyperlink is used as it is.
ExternalIdBare(a, lt, href, street, price, sqm) ==
    IF LinkId(a, href) # None THEN LinkId(a, href)[1]
    ELSE CompositeId(a, lt, street, price, sqm)

\* external_id of the HTML path of _parse_property_card
ExternalIdOf(a, lt, href, street, price, sqm) ==
    IF LinkId(a, href) # None THEN <<a, "_">> \o LinkId(a, href)[1]
    ELSE CompositeId(a, lt, street, price, sqm)

\* property_type.  raw: the text of the card's type element, None when the
\* card has none.  Only OnMap extracts it:
\* prop_type_elem.text.strip() if prop_type_elem else 'Apartment'
PropertyTypeOf(a, raw) ==
    IF a # "onmap" THEN None
    ELSE IF raw = None THEN Some(<<"Apartment">>)
    ELSE Some(Trim(raw[1]))

\* parking_spots.  raw: the text of the card's parking element, None when
\* the card has none ("parking" is one character of its alphabet).  Only
\* OnMap extracts it; the field of the dataclass defaults to 0.
ParkingOf(a, raw) ==
    IF a = "onmap" /\ raw # None
          /\ \E i \in 1..Len(raw[1]) : raw[1][i] = "parking"
      THEN 1
    ELSE 0

\* A URL is a sequence of characters, "http" standing for a scheme prefix
\* and the adapter's name for its host: the origin "https://www.yad2.co.il"
\* is <<"http", "yad2">>.
Origin(a) == <<"http", a>>

\* href.startswith('http')
StartsWithHttp(u) == u # <<>> /\ Head(u) = "http"

\* listing_url.  href: the href of the card's first <a href>, None when the
\* card has none.  Yad2 and Madlan:
\*   href if href.startswith('http') else f"https://www.yad2.co.il{href}"
\* OnMap stores no listing URL.
ListingUrlOf(a, href) ==
    IF a = "onmap" \/ href = None THEN None
    ELSE IF StartsWithHttp(href[1]) THEN href
    ELSE Some(Origin(a) \o href[1])

\* images.  srcs: the src attributes of the card's <img> tags, in order.
\* Only Madlan stores them: images.append(img['src']);
\* images if images else None
ImagesOf(a, srcs) ==
    IF a # "madlan" \/ srcs = <<>> THEN None ELSE Some(srcs)

\* what _parse_property_card returns when it returns None
NoProperty ==
    [source |-> "none", external_id |-> None, listing_type |-> "none",
     property_type |-> None,
     address_street |-> None, address_city |-> None, price_current |-> None,
     square_meters |-> None, parking_spots |-> 0, images |-> None,
     listing_url |-> None, scraped_at |-> 0]

\* _parse_from_json of Yad2: the Property built from a JSON-LD block with
\* the keys '@id' and, optionally, 'price' (a string).  int() of a string
\* that is not all digits raises; the except clause returns None.
ParseFromJson(lt, data, now) ==
    IF /\ data.price # None
       /\ data.price[1] # <<>>
       /\ \E i \in 1..Len(data.price[1]) : ~IsDigit(data.price[1][i])
      THEN NoProperty
    ELSE [source |-> "yad2", external_id |-> <<"yad2", "_">> \o data.id,
          listing_type |-> lt, property_type |-> None,
          address_street |-> None, address_city |-> None,
          price_current |->
             IF data.price = None \/ data.price[1] = <<>> THEN None
             ELSE Some(ToInt(data.price[1])),
          square_meters |-> None, parking_spots |-> 0, images |-> None,
          listing_url |-> None, scraped_at |-> now]

\* _parse_property_card(card, listing_type) at time now
ParseCard(a, c, lt, now) ==
    IF a = "yad2" /\ c.json_ld # None
      THEN ParseFromJson(lt, c.json_ld[1], now)
    ELSE LET price == PriceOf(PriceProbe(a, c.price_text))
             addr == AddressOf(a, c.address)
         IN  [source |-> a,
              external_id |->
                 ExternalIdOf(a, lt, c.href, addr.street, price, c.sqm),
              listing_type |-> lt,
              property_type |-> PropertyTypeOf(a, c.ptype),
              address_street |-> addr.street, address_city |-> addr.city,
              price_current |-> price, square_meters |-> c.sqm,
              parking_spots |-> ParkingOf(a, c.parking),
              images |-> ImagesOf(a, c.imgs),
              listing_url |-> ListingUrlOf(a, c.href),
              scraped_at |-> now]

\* Cards drawn: the characters of price texts, address texts and hrefs
PriceChars == {"0", "1", ",", "sign"}
AddrChars == {"a", "b", ",", " "}
Hrefs ==
    {<<"/", "listing", "/", "7">>, <<"/", "listing", "/", "7", "?">>,
     <<"/", "item", "/", "4", "2">>, <<"/", "item">>}

Optional(S) == {None} \cup {Some(v) : v \in S}

\* JSON-LD blocks drawn: without a price, with a plain and a grouped price
JsonBlocks ==
    {[id |-> <<"j">>, price |-> pr] :
        pr \in {None, Some(<<"1", "0">>), Some(<<"1", ",", "0">>)}}

\* a card without type element, parking element and images
CardOf(pt, ad, hr, js, sq) ==
    [price_text |-> pt, address |-> ad, href |-> hr, json_ld |-> js,
     sqm |-> sq, ptype |-> None, parking |-> None, imgs |-> <<>>]

\* the card c with the type element ty and the parking element pk
WithDetails(c, ty, pk) == [c EXCEPT !.ptype = ty, !.parking = pk]

\* texts drawn for the type element and the parking element
TypeTexts == {<<" ", "V">>, <<>>}
ParkingTexts == {<<"parking">>, <<"x">>}

\* the card c with <img> tags whose src attributes are srcs
WithImages(c, srcs) == [c EXCEPT !.imgs = srcs]

\* URLs drawn for the hyperlink and the images: relative and absolute
LinkHrefs == Hrefs \cup {<<"http", "yad2", "/", "item", "/", "4">>}
ImageSrcs ==
    {<<>>, << <<"/", "img", "/", "7">> >>, << <<"http", "cdn", "/", "7">> >>,
     << <<"http", "cdn", "/", "7">>, <<"img", "/", "8">> >>}

\* five families of cards: every price text, every address text, the
\* combinations of the fields the external id is made from, the
\* combinations of the type and parking elements, and the combinations of
\* hyperlink and images
Cards ==
    {CardOf(pt, None, None, None, None) :
        pt \in Optional(BoundedSeq(PriceChars, MaxPriceLen))}
      \cup {CardOf(None, ad, None, None, None) :
              ad \in Optional(BoundedSeq(AddrChars, MaxAddrLen))}
      \cup {CardOf(pt, ad, hr, js, sq) :
              pt \in {None, Some(<<"sign", "1", ",", "0">>)},
              ad \in {None, Some(<<"a">>), Some(<<"a", ",", " ", "b">>)},
              hr \in Optional(Hrefs),
              js \in Optional(JsonBlocks),
              sq \in {None, Some(80)}}
      \cup {WithDetails(CardOf(pt, None, None, None, sq), ty, pk) :
              pt \in {None, Some(<<"sign", "1">>)},
              sq \in {None, Some(80)},
              ty \in Optional(TypeTexts),
              pk \in Optional(ParkingTexts)}
      \cup {WithImages(CardOf(None, None, hr, js, None), srcs) :
              hr \in Optional(LinkHrefs),
              js \in {None, Some([id |-> <<"j">>, price |-> None])},
              srcs \in ImageSrcs}

ParseIdle ==
    /\ p_pc = "idle"
    /\ p_adapter = "onmap"
    /\ p_listing_type = "buy"
    /\ card = CardOf(None, None, None, None, None)
    /\ clock = 0
    /\ first_prop = NoProperty
    /\ second_prop = NoProperty
    /\ page_cards = <<>>
    /\ page_props = <<>>

\* The cards of a rendered page: a card with price, address and hyperlink,
\* a card with a JSON-LD block whose price int() rejects, and a card with
\* address and area only.
PageCards ==
    {CardOf(Some(<<"sign", "1">>), Some(<<"a">>),
            Some(<<"/", "listing", "/", "7">>), None, None),
     CardOf(Some(<<"sign", "1">>), None, None,
            Some([id |-> <<"j">>, price |-> Some(<<"1", ",", "0">>)]), None),
     CardOf(None, Some(<<"b">>), None, None, Some(80))}

\* Mutant of ParseProperties: the loop ends at the first card that gives no
\* Property.
RECURSIVE ParsePropertiesUntilFailure(_, _, _, _)
ParsePropertiesUntilFailure(a, items, lt, now) ==
    IF items = <<>> THEN <<>>
    ELSE LET prop == IF Head(items).raises THEN NoProperty
                     ELSE ParseCard(a, Head(items).card, lt, now)
         IN  IF prop = NoProperty THEN <<>>
             ELSE <<prop>>
                    \o ParsePropertiesUntilFailure(a, Tail(items), lt,
                                                   now + 1)

\* _parse_properties: 'for card in property_cards', the card is parsed
\* inside try/except; 'if prop: properties.append(prop)'; a card whose
\* extraction raises or returns None is passed over; the cards are parsed
\* one after the other, each at its own time.
RECURSIVE ParseProperties(_, _, _, _)
ParseProperties(a, items, lt, now) ==
    IF items = <<>> THEN <<>>
    ELSE LET prop == IF Head(items).raises THEN NoProperty
                     ELSE ParseCard(a, Head(items).card, lt, now)
         IN  (IF prop = NoProperty THEN <<>> ELSE <<prop>>)
               \o ParseProperties(a, Tail(items), lt, now + 1)

\* a card of a rendered page is about to be parsed, or the cards of a
\* rendered page are about to be parsed by _parse_properties.  A position
\* of the page is the card and whether a probe of the card raises (an
\* element of unexpected shape): _parse_property_card catches the exception
\* and returns None; the loop of _parse_properties catches what would
\* escape it.
ParseStart ==
    /\ p_adapter \in Adapters
    /\ p_listing_type \in {"buy", "rent"}
    /\ \/ /\ p_pc = "card"
          /\ card \in Cards
          /\ page_cards = <<>>
       \/ /\ p_pc = "page"
          /\ card = CardOf(None, None, None, None, None)
          /\ page_cards \in
                BoundedSeq([card : PageCards, raises : BOOLEAN], MaxCards)
    /\ clock = 0
    /\ first_prop = NoProperty
    /\ second_prop = NoProperty
    /\ page_props = <<>>

\* _parse_property_card on the card
ParseFirst ==
    /\ p_pc = "card"
    /\ first_prop' = ParseCard(p_adapter, card, p_listing_type, clock)
    /\ clock' = clock + 1
    /\ p_pc' = "parsed"
    /\ UNCHANGED <<p_adapter, p_listing_type, card, second_prop, page_cards,
                   page_props>>
    /\ UNCHANGED <<orchVars, storeVars, scrollVars, scrapeVars, runVars>>

\* _parse_property_card on the identical card in a later extraction
ParseAgain ==
    /\ p_pc = "parsed"
    /\ second_prop' = ParseCard(p_adapter, card, p_listing_type, clock)
    /\ clock' = clock + 1
    /\ p_pc' = "reparsed"
    /\ UNCHANGED <<p_adapter, p_listing_type, card, first_prop, page_cards,
                   page_props>>
    /\ UNCHANGED <<orchVars, storeVars, scrollVars, scrapeVars, runVars>>

\* _parse_properties on the cards of the page
ParsePage ==
    /\ p_pc = "page"
    /\ page_props' =
          ParseProperties(p_adapter, page_cards, p_listing_type, clock)
    /\ clock' = clock + Len(page_cards)
    /\ p_pc' = "page_parsed"
    /\ UNCHANGED <<p_adapter, p_listing_type, card, first_prop, second_prop,
                   page_cards>>
    /\ UNCHANGED <<orchVars, storeVars, scrollVars, scrapeVars, runVars>>

ParseNext ==
    \/ ParseFirst
    \/ ParseAgain
    \/ ParsePage

(***************************************************************************)
(* Specifications: one per part; the other parts' variables stay idle      *)
(***************************************************************************)
OrchInit ==
    OrchStart /\ StoreStart /\ ScrollIdle /\ ScrapeIdle /\ RunIdle /\ ParseIdle

SpecOrch == OrchInit /\ [][OrchNext]_vars

\* run() is one coroutine whose awaited stages return or raise: weak
\* fairness of its step.
SpecOrchFair == OrchInit /\ [][OrchNext]_vars /\ WF_vars(OrchNext)

StoreInit ==
    StoreStart /\ OrchIdle /\ ScrollIdle /\ ScrapeIdle /\ RunIdle /\ ParseIdle

SpecStore == StoreInit /\ [][StoreNext]_vars

ConcurrentInit ==
    /\ ConcurrentStart /\ OrchIdle /\ ScrollIdle /\ ScrapeIdle /\ RunIdle
    /\ ParseIdle

SpecConcurrent == ConcurrentInit /\ [][ConcurrentNext]_vars

ScrollInit ==
    ScrollStart /\ OrchIdle /\ StoreStart /\ ScrapeIdle /\ RunIdle /\ ParseIdle

\* The loop body's awaited calls return or raise (the browser's own timeouts),
\* so the sequential loop keeps taking steps: weak fairness of its step.
SpecScroll == ScrollInit /\ [][ScrollNext]_vars /\ WF_vars(ScrollNext)

ScrapeInit ==
    /\ ScrapeStart /\ OrchIdle /\ StoreStart /\ ScrollIdle /\ RunIdle
    /\ ParseIdle

\* scrape() is a sequential coroutine whose awaited calls return or raise:
\* weak fairness of its step.
SpecScrape == ScrapeInit /\ [][ScrapeNext]_vars /\ WF_vars(ScrapeNext)

\* The orchestrator's pipeline followed by an adapter's scrape(): the two
\* are separate entry points of the repository (the stages do not invoke the
\* adapters) and share no state, so one is run after the other has exited.
\* The stages ignore what the adapters would return, so that input is fixed.
PipelineInit ==
    /\ OrchStart
    /\ adapter_returns = [s \in SourceSet |-> 0]
    /\ adapter_errors = [s \in SourceSet |-> 0]
    /\ ScrapeStart
    /\ arg_cities = NoCities
    /\ delay_seconds = DefaultDelaySeconds
    /\ StoreStart /\ ScrollIdle /\ RunIdle /\ ParseIdle

PipelineNext ==
    \/ OrchNext
    \/ o_pc = "exited" /\ ScrapeNext

SpecPipeline == PipelineInit /\ [][PipelineNext]_vars

RunInit ==
    /\ RunStart /\ StoreStart /\ OrchIdle /\ ScrollIdle /\ ScrapeIdle
    /\ ParseIdle

SpecRun == RunInit /\ [][RunNext]_vars

ParseInit ==
    /\ ParseStart /\ OrchIdle /\ StoreStart /\ ScrollIdle /\ ScrapeIdle
    /\ RunIdle

SpecParse == ParseInit /\ [][ParseNext]_vars

(***************************************************************************)
(* Persistence claims                                                      *)
(***************************************************************************)
\* C1: in a sequence of save_to_db calls without store failure, a listing
\* whose (source, external_id) is already persisted (by an earlier call or
\* earlier in the same batch) is counted as updated and not as new, a listing
\* whose key is not yet persisted is counted as new, and after every call the
\* store holds exactly one row per natural key.
C1_IdempotentUpsert ==
    ~store_failed =>
        /\ \A i \in 1..Len(outcomes) :
              outcomes[i] =
                 IF KeyOf(properties[i])
                       \in store_before \cup SeqKeys(properties, i - 1)
                   THEN "updated" ELSE "new"
        /\ s_pc = "returned" =>
              /\ counts.new =
                    Cardinality(SeqKeys(properties, Len(properties))
                                  \ store_before)
              /\ counts.updated = Len(properties) - counts.new
              /\ counts.errors = 0
              /\ KeysOf(store) =
                    store_before \cup SeqKeys(properties, Len(properties))
        /\ \A r1, r2 \in store : KeyOf(r1) = KeyOf(r2) => r1 = r2

\* C1 witness: a second call has returned, without store failure, after
\* persisting again a key stored by the first call: one update, no insert.
C1_Witness ==
    /\ ~store_failed
    /\ s_pc = "returned"
    /\ calls = 2
    /\ Len(properties) = 1
    /\ KeyOf(properties[1]) \in store_before
    /\ counts = [new |-> 0, updated |-> 1, errors |-> 0]
    /\ Cardinality(store) = 1

\* C11: in save_to_db a failure of the lookup, insert or update of one
\* listing adds exactly one to counts['errors'] and does not end the loop:
\* every listing of the batch is attempted and save_to_db returns.
C11_ItemFailureCounted ==
    /\ counts.errors =
          Cardinality({i \in 1..Len(outcomes) : outcomes[i] = "error"})
    /\ s_pc = "loop" => Len(outcomes) = prop_idx - 1
    /\ s_pc = "returned" => Len(outcomes) = Len(properties)

\* the first listing of a batch of two failed, the second was inserted
C11_Witness ==
    /\ s_pc = "returned"
    /\ outcomes = <<"error", "new">>
    /\ counts = [new |-> 1, updated |-> 0, errors |-> 1]

\* the listings handled so far whose attempt ended in outcome o
CountOf(o) == Cardinality({i \in 1..Len(outcomes) : outcomes[i] = o})

\* C22: save_to_db attempts each listing of the batch exactly once, in batch
\* order, and each attempt ends in exactly one of new (one insert), updated
\* (one update) or error (the store is left alone): each pass of the loop
\* handles the next listing of the batch and records one outcome, and for
\* every call new + updated + errors is the number of listings handled, the
\* size of the batch when the call returns.
C22_EachListingOnce ==
    /\ [](/\ s_pc = "loop" => Len(outcomes) = prop_idx - 1
          /\ \A i \in 1..Len(outcomes) :
                outcomes[i] \in {"new", "updated", "error"}
          /\ counts.new = CountOf("new")
          /\ counts.updated = CountOf("updated")
          /\ counts.errors = CountOf("error")
          /\ s_pc = "returned" =>
                counts.new + counts.updated + counts.errors = Len(properties))
    /\ [][(s_pc = "loop" /\ s_pc' = "loop") =>
            LET o == outcomes'[Len(outcomes')] IN
              /\ prop_idx' = prop_idx + 1
              /\ prop_idx <= Len(properties)
              /\ properties' = properties
              /\ outcomes' = Append(outcomes, o)
              /\ o = "new" =>
                    /\ Cardinality(store') = Cardinality(store) + 1
                    /\ store \subseteq store'
              /\ o = "updated" =>
                    /\ Cardinality(store') = Cardinality(store)
                    /\ Cardinality(store \ store') <= 1
              /\ o = "error" => store' = store]_vars

\* one call handled a batch of two listings with the same natural key: the
\* first was inserted, the second replaced it
C22_Witness ==
    /\ s_pc = "returned"
    /\ Len(properties) = 2
    /\ outcomes = <<"new", "updated">>
    /\ counts = [new |-> 1, updated |-> 1, errors |-> 0]
    /\ Cardinality(store) = 1

\* the rows of the store with natural key k
RowsOf(rows, k) == {r \in rows : KeyOf(r) = k}

\* the fields of a stored row without the store's own id
FieldsOf(r) ==
    [source |-> r.source, external_id |-> r.external_id,
     price_current |-> r.price_current]

\* C23: when save_to_db handles a listing L without failure, afterwards
\* the store holds one row for L's natural key and its fields are exactly
\* L's serialized fields (a row that existed keeps its id and has all its
\* fields replaced; otherwise a row is inserted), and the rows of every
\* other natural key are unchanged by that step.
C23_ReplaceOrInsertOnly ==
    [][(/\ s_pc = "loop" /\ s_pc' = "loop"
        /\ outcomes'[Len(outcomes')] # "error") =>
          LET L == properties[prop_idx]
              before == RowsOf(store, KeyOf(L))
              after == RowsOf(store', KeyOf(L))
          IN  /\ Cardinality(after) = 1
              /\ \A r \in after : FieldsOf(r) = ToDict(L)
              /\ IF before # {}
                   THEN /\ outcomes'[Len(outcomes')] = "updated"
                        /\ {r.id : r \in after} = {r.id : r \in before}
                   ELSE /\ outcomes'[Len(outcomes')] = "new"
                        /\ \A r \in after : r.id \notin {x.id : x \in store}
              /\ \A k \in KeysOf(store) \cup KeysOf(store') :
                    k # KeyOf(L) => RowsOf(store', k) = RowsOf(store, k)]_vars

\* a second call replaced the price of a stored listing while a row of
\* another natural key was in the store
C23_Witness ==
    /\ s_pc = "returned"
    /\ calls = 2
    /\ ~store_failed
    /\ outcomes = <<"updated">>
    /\ properties[1].price_current = 2
    /\ Cardinality(store) = 2
    /\ \A r \in RowsOf(store, KeyOf(properties[1])) : r.price_current = 2
    /\ \E r \in store : KeyOf(r) # KeyOf(properties[1]) /\ r.price_current = 1

C19_StopConditionsInOrder ==
    LET scrolled == /\ iterations > 0
                    /\ last_obs.fault = "none"
                    /\ last_obs.current_count > 0
        cap == IF sc_limit # NoLimit /\ sc_limit[1] > 0 THEN sc_limit[1]
               ELSE 50
    IN  /\ sc_pc \in {"loop", "done"}
        /\ sc_pc = "done" =>
              stop_reason \in {"marker", "stuck", "cap", "empty", "error"}
        /\ scrolled =>
              IF last_obs.bottom = "found"
                THEN sc_pc = "done" /\ stop_reason = "marker"
              ELSE IF last_obs.new_count = last_obs.current_count
                THEN sc_pc = "done" /\ stop_reason = "stuck"
              ELSE \/ sc_pc = "loop" /\ scroll_count < cap
                   \/ sc_pc = "done" /\ stop_reason = "cap"
                         /\ scroll_count = cap
                   \/ sc_pc = "loop" /\ scroll_count = cap

\* the marker was rendered in a pass whose re-count was unchanged too
C19_Witness ==
    /\ sc_pc = "done"
    /\ stop_reason = "marker"
    /\ scroll_count = 1
    /\ last_obs.fault = "none"
    /\ last_obs.bottom = "found"
    /\ last_obs.current_count > 0
    /\ last_obs.new_count = last_obs.current_count

(***************************************************************************)
(* Orchestrator claims                                                     *)
(***************************************************************************)
InSeq(x, s) == \E i \in 1..Len(s) : s[i] = x

StageOf(src) ==
    CASE src = "onmap" -> "stage2" [] src = "yad2" -> "stage3"
      [] src = "madlan" -> "stage4"

RunEnded == run_outcome # "running"

\* C2: when the stage of one source fails, every later source stage still
\* runs, the failure does not end run(), and at the end the failed source is
\* in sources_failed and every source whose stage did not fail is in
\* sources_completed.
C2_StageFailureIsolated ==
    /\ stage_raised # {} => (run_outcome # "raised" /\ (RequiredVars \ env) = {})
    /\ (RunEnded /\ stage_raised # {}) =>
          /\ \A s \in SourceSet : InSeq(StageOf(s), stages_run)
          /\ \A s \in stage_raised :
                /\ InSeq(s, orch_stats.sources_failed)
                /\ ~InSeq(s, orch_stats.sources_completed)
          /\ \A s \in SourceSet \ stage_raised :
                /\ InSeq(s, orch_stats.sources_completed)
                /\ ~InSeq(s, orch_stats.sources_failed)

\* C2 witness: the run ended after the yad2 stage failed and the later madlan
\* stage ran and completed.
C2_Witness ==
    /\ run_outcome = "returned"
    /\ stage_raised = {"yad2"}
    /\ InSeq("stage4", stages_run)
    /\ InSeq("madlan", orch_stats.sources_completed)

\* C6: main() exits with code 0 exactly when run() completed and no stage
\* recorded an error; it exits with code 1 when a stage recorded an error or
\* the run aborted.
C6_ExitCode ==
    o_pc = "exited" =>
        /\ exit_code \in {0, 1}
        /\ exit_code = 0 <=>
              (run_outcome = "returned" /\ stage_raised = {}
                 /\ Len(orch_stats.errors) = 0)
        /\ (stage_raised # {} \/ (RequiredVars \ env) # {}
              \/ run_outcome = "raised") => exit_code = 1

\* C6 witness: run() returned normally with a recorded stage error and main()
\* exited with code 1.
C6_Witness ==
    /\ o_pc = "exited"
    /\ run_outcome = "returned"
    /\ stage_raised # {}
    /\ exit_code = 1

\* C7: a run in which one source's adapter raises immediately and another
\* source's adapter returns 3 listings (the remaining adapter returns none)
\* ends with 1 failed source, 1 completed source, total_properties = 3 and
\* exit code 1.
C7_EndToEndScenario ==
    (/\ o_pc = "exited"
     /\ Cardinality(stage_raised) = 1
     /\ \E b \in SourceSet \ stage_raised :
           /\ adapter_returns[b] = 3
           /\ \A c \in SourceSet \ (stage_raised \cup {b}) :
                 adapter_returns[c] = 0)
    => (/\ Len(orch_stats.sources_failed) = 1
        /\ Len(orch_stats.sources_completed) = 1
        /\ orch_stats.total_properties = 3
        /\ exit_code = 1)

\* C8: with mandatory configuration missing the run aborts before any scrape
\* stage: nothing is added to sources_completed or sources_failed,
\* total_properties stays 0, an error is recorded, run() raises and main()
\* exits with code 1.
C8_MissingConfigAborts ==
    (RequiredVars \ env) # {} =>
        /\ \A s \in SourceSet : ~InSeq(StageOf(s), stages_run)
        /\ orch_stats.sources_completed = <<>>
        /\ orch_stats.sources_failed = <<>>
        /\ orch_stats.total_properties = 0
        /\ stages_run # <<>> =>
              (run_outcome = "raised" /\ Len(orch_stats.errors) = 1)
        /\ o_pc = "exited" => exit_code = 1
        /\ o_pc \in {"stage1", "main_exit", "exited"}

\* C8 witness: main() has exited after Initialize found only the
\* ANTHROPIC_API_KEY missing.
C8_Witness ==
    /\ o_pc = "exited"
    /\ (RequiredVars \ env) = {"ANTHROPIC_API_KEY"}
    /\ run_outcome = "raised"

\* C20: when Initialize succeeds, run() reaches Finalize and returns the
\* aggregate stats, whatever subset of the scrape stages fails: run() raises
\* only when Initialize failed, and with a valid configuration it eventually
\* returns with Finalize run last and every source listed as completed or
\* failed.
C20_InitializedRunFinalizes ==
    /\ [](run_outcome = "raised" => (RequiredVars \ env) # {})
    /\ ((RequiredVars \ env) = {})
          ~> (/\ run_outcome = "returned"
              /\ stages_run # <<>>
              /\ stages_run[Len(stages_run)] = "stage7"
              /\ Len(orch_stats.sources_completed)
                   + Len(orch_stats.sources_failed) = Len(Sources))

\* all three scrape stages failed and run() returned after Finalize
C20_Witness ==
    /\ run_outcome = "returned"
    /\ stage_raised = SourceSet
    /\ stages_run[Len(stages_run)] = "stage7"
    /\ orch_stats.sources_failed = Sources
    /\ orch_stats.sources_completed = <<>>

\* the scraped counts of the adapters of the sources in srcs, added up
RECURSIVE ScrapedBy(_)
ScrapedBy(srcs) ==
    IF srcs = <<>> THEN 0
    ELSE adapter_returns[Head(srcs)] + ScrapedBy(Tail(srcs))

\* C21: after a Scrape stage completes, the pipeline aggregate reflects the
\* adapter's RunStats: total_properties is the sum of the scraped counts of
\* the adapters of the completed sources, and a completed source whose
\* adapter counted errors has an entry among the aggregate's errors.
C21_AdapterStatsMerged ==
    /\ orch_stats.total_properties = ScrapedBy(orch_stats.sources_completed)
    /\ \A s \in SourceSet :
          (InSeq(s, orch_stats.sources_completed) /\ adapter_errors[s] > 0)
             => InSeq(s, orch_stats.errors)

\* the sources listed in a sequence
Listed(s) == {s[i] : i \in 1..Len(s)}

\* C35: in every reachable state sources_completed and sources_failed are
\* disjoint and hold each source at most once; after Finalize their union is
\* exactly {onmap, yad2, madlan}; errors has at least as many entries as
\* there are failed sources.
C35_SourceListsPartition ==
    /\ Listed(orch_stats.sources_completed)
          \cap Listed(orch_stats.sources_failed) = {}
    /\ Cardinality(Listed(orch_stats.sources_completed))
          = Len(orch_stats.sources_completed)
    /\ Cardinality(Listed(orch_stats.sources_failed))
          = Len(orch_stats.sources_failed)
    /\ InSeq("stage7", stages_run) =>
          Listed(orch_stats.sources_completed)
             \cup Listed(orch_stats.sources_failed)
          = {"onmap", "yad2", "madlan"}
    /\ Len(orch_stats.errors) >= Len(orch_stats.sources_failed)

\* Finalize ran after the onmap and madlan stages failed and yad2 completed
C35_Witness ==
    /\ InSeq("stage7", stages_run)
    /\ orch_stats.sources_failed = <<"onmap", "madlan">>
    /\ orch_stats.sources_completed = <<"yad2">>
    /\ Len(orch_stats.errors) = 2

\* the properties_scraped of the stats merged by the stages of srcs, added up
RECURSIVE StageScraped(_)
StageScraped(srcs) ==
    IF srcs = <<>> THEN 0
    ELSE PlaceholderStats(Head(srcs), adapter_returns[Head(srcs)])
            .properties_scraped
         + StageScraped(Tail(srcs))

\* C36: a Scrape stage that fails leaves total_properties and
\* sources_completed unchanged and adds exactly one entry to sources_failed
\* and exactly one message to errors; at every stage boundary
\* total_properties is the sum of properties_scraped over the stages listed
\* in sources_completed.
C36_FailedStageFrame ==
    /\ [](orch_stats.total_properties
            = StageScraped(orch_stats.sources_completed))
    /\ [][stage_raised' # stage_raised =>
            /\ orch_stats'.total_properties = orch_stats.total_properties
            /\ orch_stats'.sources_completed = orch_stats.sources_completed
            /\ \E s \in SourceSet :
                  /\ stage_raised' = stage_raised \cup {s}
                  /\ orch_stats'.sources_failed
                        = Append(orch_stats.sources_failed, s)
            /\ Len(orch_stats'.errors) = Len(orch_stats.errors) + 1
            /\ SubSeq(orch_stats'.errors, 1, Len(orch_stats.errors))
                  = orch_stats.errors]_vars

\* the yad2 stage failed after the onmap stage completed, and madlan
\* completed after it
C36_Witness ==
    /\ o_pc = "stage5"
    /\ stage_raised = {"yad2"}
    /\ orch_stats.sources_completed = <<"onmap", "madlan">>
    /\ orch_stats.sources_failed = <<"yad2">>
    /\ orch_stats.errors = <<"yad2">>
    /\ orch_stats.total_properties = 0
    /\ adapter_returns["onmap"] > 0

(***************************************************************************)
(* Claims about the adapters' scrape()                                     *)
(***************************************************************************)
\* the page requests issued for the i-th requested listing type, in order
ReqsOf(i) == SelectSeq(requests, LAMBDA r : r.type_idx = i)

\* the listings collected so far that came from the i-th requested type
ListingsOf(i) ==
    SelectSeq(all_properties \o type_props, LAMBDA l : l.type_idx = i)

RequestedTypes == IF arg_types = NoTypes THEN DefaultTypes(adapter) ELSE arg_types[1]

Paginated == adapter \in {"yad2", "madlan"}

DefaultPages == IF adapter = "yad2" THEN 5 ELSE 3

\* pages of each type are requested as 1, 2, 3, ..., none after an empty
\* page, and at most cap of them
PagesInOrderWithin(cap) ==
    \A i \in 1..Len(RequestedTypes) :
       LET rs == ReqsOf(i) IN
         /\ \A k \in 1..Len(rs) : rs[k].page = k
         /\ \A k \in 1..(Len(rs) - 1) : rs[k].yield > 0
         /\ Len(rs) <= cap

C5_UnknownTypeSkipped ==
    /\ [](\A i \in 1..Len(RequestedTypes) :
            RequestedTypes[i] \notin URLS(adapter) =>
               /\ ReqsOf(i) = <<>>
               /\ i \notin error_types)
    /\ [](stats_errors = Cardinality(error_types))
    /\ [](sp_pc = "done" =>
            \A i \in 1..Len(RequestedTypes) :
               RequestedTypes[i] \in URLS(adapter) => ReqsOf(i) # <<>>)
    /\ <>(sp_pc = "done")

\* Yad2 asked for new_homes (unknown to it) and then buy: returned, nothing
\* requested for new_homes, buy scraped, no error counted.
C5_Witness ==
    /\ sp_pc = "done"
    /\ adapter = "yad2"
    /\ arg_types = << <<"new_homes", "buy">> >>
    /\ ReqsOf(1) = <<>>
    /\ Len(ReqsOf(2)) = 2
    /\ ListingsOf(2) # <<>>
    /\ stats_errors = 0

\* C9: for every adapter, when scraping one listing type fails, that type
\* contributes no listings, the failure is recorded in the adapter's error
\* count, and every later known listing type of the request is still scraped.
C9_TypeFailureRecorded ==
    sp_pc = "done" =>
       /\ \A i \in failed_types :
            /\ ListingsOf(i) = <<>>
            /\ i \in error_types
       /\ stats_errors = Cardinality(failed_types)
       /\ \A i \in 1..Len(RequestedTypes) :
            RequestedTypes[i] \in URLS(adapter) => ReqsOf(i) # <<>>

\* the listings parsed from the pages requested for the i-th requested
\* type, in the order of the requests
RECURSIVE ParsedFrom(_)
ParsedFrom(rs) ==
    IF rs = <<>> THEN <<>>
    ELSE PageListings(adapter, RequestedTypes[Head(rs).type_idx],
                      Head(rs).type_idx, Head(rs).page, Head(rs).yield,
                      Head(rs).city)
           \o ParsedFrom(Tail(rs))

\* what the i-th requested type contributes: its parsed listings (those of
\* the requested cities in OnMap) when it is known and was scraped without
\* failure, nothing otherwise
Contribution(i) ==
    IF RequestedTypes[i] \in URLS(adapter) /\ i \notin failed_types
      THEN IF adapter = "onmap"
             THEN CityFilter(arg_cities, ParsedFrom(ReqsOf(i)))
           ELSE ParsedFrom(ReqsOf(i))
    ELSE <<>>

RECURSIVE ConcatFrom(_)
ConcatFrom(i) ==
    IF i > Len(RequestedTypes) THEN <<>>
    ELSE Contribution(i) \o ConcatFrom(i + 1)

\* C25: for every adapter, scrape() returns the concatenation, in request
\* order, of the listings of each requested known listing type that was
\* scraped without failure; a skipped or failed type contributes nothing.
C25_ConcatenationOfCleanTypes ==
    sp_pc = "done" => all_properties = ConcatFrom(1)

\* the listing's extracted city is one of the requested cities
CityRequested(l) ==
    /\ l.address_city # <<>>
    /\ \E j \in 1..Len(arg_cities[1]) : arg_cities[1][j] = l.address_city[1]

\* C26: in OnMap, the adapter without a native city filter, when a
\* non-empty cities list is given every listing collected by scrape() has an
\* extracted city that is a member of cities: the parsed listings whose city
\* is absent or not in the list are dropped and the others are kept, in
\* order; with cities absent or empty every parsed listing is kept.
C26_ClientSideCityFilter ==
    adapter = "onmap" =>
       IF arg_cities # NoCities /\ Len(arg_cities[1]) > 0
         THEN /\ \A k \in 1..Len(all_properties) :
                    CityRequested(all_properties[k])
              /\ all_properties =
                    SelectSeq(ParsedFrom(requests), CityRequested)
       ELSE all_properties = ParsedFrom(requests)

\* OnMap asked for one city and two listing types: the listing of the first
\* type is in that city and is returned, the listing of the second has no
\* extracted city and is dropped
C26_Witness ==
    /\ sp_pc = "done"
    /\ adapter = "onmap"
    /\ arg_cities = << <<"Bat Yam">> >>
    /\ Len(requests) = 2
    /\ requests[1].yield = 1 /\ requests[1].city = <<"Bat Yam">>
    /\ requests[2].yield = 1 /\ requests[2].city = <<>>
    /\ Len(all_properties) = 1
    /\ all_properties[1].type_idx = 1

\* the city part of a URL scoped by the city first alone
ScopedBy(first) ==
    IF adapter = "yad2" THEN <<first>> ELSE <<MadlanCitySlug(first)>>

\* C27: in Yad2 and Madlan, the adapters with city-scoped URLs, every page
\* request of a scrape() call is scoped by the first requested city only:
\* the URL is made of the listing type's base URL, a city part that is a
\* function of cities[0] alone (so two cities lists with the same first
\* element give the same URLs) and the page number; with cities absent or
\* empty the URL has no city part.
C27_ScopedByFirstCity ==
    Paginated =>
       \A k \in 1..Len(requests) :
          /\ requests[k].url.base = RequestedTypes[requests[k].type_idx]
          /\ requests[k].url.page_param = <<requests[k].page>>
          /\ requests[k].url.scope =
                IF arg_cities # NoCities /\ Len(arg_cities[1]) > 0
                  THEN ScopedBy(arg_cities[1][1])
                ELSE <<>>

\* Madlan asked for two cities: both pages requested for the first listing
\* type are scoped by the slug of the first city
C27_Witness ==
    /\ sp_pc = "done"
    /\ adapter = "madlan"
    /\ arg_cities = << <<"Bat Yam", "he:haifa">> >>
    /\ Len(ReqsOf(1)) = 2
    /\ ReqsOf(1)[1].url.scope = <<"bat-yam">>
    /\ ReqsOf(1)[2].url =
          [base |-> RequestedTypes[1], scope |-> <<"bat-yam">>,
           page_param |-> <<2>>]

\* C30: between any two consecutive requests of one adapter invocation
\* (between pages and between listing types) a delay is applied, and the
\* length of every such delay is the adapter's configured delay_seconds.
C30_ConfiguredDelayBetweenRequests ==
    \A k \in 2..Len(requests) :
       /\ requests[k].delays # <<>>
       /\ \A d \in 1..Len(requests[k].delays) :
             requests[k].delays[d] = delay_seconds

\* the i-th requested type is behind the for loop of scrape()
TypeLeft(i) == sp_pc = "done" \/ type_idx > i

\* C37: in the paginated adapters a failure while loading or rendering page
\* k ends pagination for that listing type without raising out of
\* _scrape_listing_type: page k is the type's last request, scrape() counts
\* no error for the type, and the listings extracted from pages 1..k-1 are
\* what the type returns.
C37_PageFailureEndsPagination ==
    Paginated =>
       \A i \in 1..Len(RequestedTypes) :
          LET rs == ReqsOf(i) IN
            \A k \in 1..Len(rs) :
               rs[k].raises =>
                  /\ k = Len(rs)
                  /\ i \notin error_types
                  /\ TypeLeft(i)
                  /\ SelectSeq(all_properties, LAMBDA l : l.type_idx = i)
                       = ParsedFrom(SubSeq(rs, 1, k - 1))

\* Yad2: page 2 of the first type failed after page 1 yielded a listing;
\* scrape() returned with that listing and went on to the second type
C37_Witness ==
    /\ sp_pc = "done"
    /\ adapter = "yad2"
    /\ Len(ReqsOf(1)) = 2
    /\ ReqsOf(1)[1].yield = 1
    /\ ReqsOf(1)[2].raises
    /\ Len(SelectSeq(all_properties, LAMBDA l : l.type_idx = 1)) = 1
    /\ ReqsOf(2) # <<>>
    /\ stats_errors = 0

(***************************************************************************)
(* Claims about run()                                                      *)
(***************************************************************************)
\* C10: in every invocation of run() the browser is open when scrape()
\* starts, and when run() has returned or raised no browser is left open: a
\* browser launched in the invocation has been closed, also when scrape()
\* raised or saving failed.
C10_BrowserScoped ==
    /\ browser_at_scrape \in {"n/a", "open"}
    /\ r_pc \in {"returned", "raised"} =>
          /\ browser # "open"
          /\ opened => browser = "closed"

\* run() raised because scrape() raised; the browser it had opened is closed
C10_Witness ==
    /\ r_pc = "raised"
    /\ pending = "Exception"
    /\ browser_at_scrape = "open"
    /\ opened
    /\ browser = "closed"

\* C12: the audit record written for an invocation of run() has status
\* 'completed' exactly when no error was recorded during that invocation
\* (listing-type failures counted in scrape(), item failures counted in
\* save_to_db); otherwise its status is 'completed_with_errors'.
C12_StatusReflectsErrors ==
    logged =>
       /\ run_log[Len(run_log)].status
             \in {"completed", "completed_with_errors"}
       /\ run_log[Len(run_log)].status = "completed" <=> inv_errors = 0

\* C13: a failure to write the run-log record does not change the outcome
\* of run(): whether or not the write succeeds, log_scrape_session leaves the
\* stats alone and raises nothing, and run() then returns those stats.
C13_LogFailureSwallowed ==
    [][/\ r_pc = "log" =>
            /\ r_pc' = "finally"
            /\ pending' = "none"
            /\ run_stats' = run_stats
            /\ logged' \/ run_log' = run_log
       /\ (r_pc = "finally" /\ pending = "none") =>
            /\ r_pc' = "returned"
            /\ run_stats' = run_stats]_vars

\* the first run() scraped and stored one listing, the log write failed,
\* and run() returned
C13_Witness ==
    /\ r_pc = "returned"
    /\ runs = 1
    /\ ~logged
    /\ run_log = <<>>
    /\ run_stats.properties_scraped = 1
    /\ run_stats.properties_new = 1

\* C24: every invocation of run() appends exactly one audit record to the
\* run log, whether it ends normally or with a failure, provided the log
\* write itself succeeds: at most one record per invocation, and an
\* invocation that has returned or raised without a failed log write has
\* written its record.
C24_OneAuditRecordPerRun ==
    /\ Len(run_log) <= runs
    /\ (r_pc \in {"returned", "raised"} /\ ~log_failed) => logged

\* C33: the stats returned by run() describe that invocation only: in an
\* invocation that has returned, properties_new and properties_updated are
\* the counts of its own save_to_db call (0 when it scraped no listing and
\* saved nothing), and errors holds no more than the errors counted during
\* the invocation.
C33_StatsOfThisInvocationOnly ==
    r_pc = "returned" =>
       /\ run_stats.properties_new =
             IF scraped = <<>> THEN 0 ELSE counts.new
       /\ run_stats.properties_updated =
             IF scraped = <<>> THEN 0 ELSE counts.updated
       /\ run_stats.errors <= inv_errors

\* C34: after a successful run() that scraped at least one listing,
\* properties_new + properties_updated + errors equals properties_scraped,
\* and properties_scraped is the number of listings scrape() returned.
C34_StatsAddUp ==
    (r_pc = "returned" /\ scraped # <<>>) =>
       /\ run_stats.properties_scraped = Len(scraped)
       /\ run_stats.properties_new + run_stats.properties_updated
             + run_stats.errors = run_stats.properties_scraped

\* a second run() returned after scrape() counted an error and returned two
\* listings, of which one was updated and one failed to save
C34_Witness ==
    /\ r_pc = "returned"
    /\ runs = 2
    /\ Len(scraped) = 2
    /\ inv_errors = 2
    /\ run_stats = [properties_scraped |-> 2, properties_new |-> 0,
                    properties_updated |-> 1, errors |-> 1]

(***************************************************************************)
(* Claims about the order of execution                                     *)
(***************************************************************************)
\* the order in which run() awaits the stages
StageOrder ==
    <<"stage1", "stage2", "stage3", "stage4", "stage5", "stage6", "stage7">>

\* C14: the pipeline is strictly sequential in a fixed order (Initialize,
\* OnMap, Yad2, Madlan, ..., Finalize): the stages run so far are a prefix of
\* that order, so no stage runs twice or before its predecessor has ended;
\* and inside an adapter the listing types are handled one at a time in
\* request order: page requests and collected listings never go back to an
\* earlier type of the list.
C14_StrictlySequential ==
    /\ Len(stages_run) <= Len(StageOrder)
    /\ \A i \in 1..Len(stages_run) : stages_run[i] = StageOrder[i]
    /\ o_pc \in {"main_exit", "exited"}
          \/ o_pc = StageOrder[Len(stages_run) + 1]
    /\ \A j, k \in 1..Len(requests) :
          j < k => requests[j].type_idx <= requests[k].type_idx
    /\ \A k \in 1..Len(requests) :
          /\ requests[k].type_idx <= type_idx
          /\ sp_pc \in {"types", "done"} => requests[k].type_idx < type_idx
    /\ \A j, k \in 1..Len(all_properties) :
          j < k => all_properties[j].type_idx <= all_properties[k].type_idx

\* the pipeline ran all its stages although the Yad2 stage failed, and a
\* Yad2 scrape of two listing types requested pages for the first, then for
\* the second
C14_Witness ==
    /\ o_pc = "exited"
    /\ stages_run = StageOrder
    /\ stage_raised = {"yad2"}
    /\ sp_pc = "done"
    /\ adapter = "yad2"
    /\ Len(requests) = 4
    /\ requests[2].type_idx = 1
    /\ requests[3].type_idx = 2

(***************************************************************************)
(* Claims about card parsing                                               *)
(***************************************************************************)
RECURSIVE Pow10(_)
Pow10(n) == IF n = 0 THEN 1 ELSE 10 * Pow10(n - 1)

\* the number written by the digits of s, read in their order with every
\* other character left out: each digit weighs 10 to the number of digits
\* that follow it
RECURSIVE DigitsNumberFrom(_, _)
DigitsNumberFrom(s, i) ==
    IF i > Len(s) THEN 0
    ELSE (IF IsDigit(s[i])
            THEN DigitValue(s[i])
                   * Pow10(Cardinality({j \in (i + 1)..Len(s) : IsDigit(s[j])}))
            ELSE 0)
         + DigitsNumberFrom(s, i + 1)

HasDigit(s) == \E i \in 1..Len(s) : IsDigit(s[i])

Parsed == p_pc \in {"parsed", "reparsed"}

\* the card has a price text, and the price of the property extracted from
\* the card equals the digits of that text
PriceFromText(prop) ==
    LET text == PriceProbe(p_adapter, card.price_text) IN
      text # None =>
         /\ prop # NoProperty
         /\ prop.price_current =
               IF HasDigit(text[1]) THEN Some(DigitsNumberFrom(text[1], 1))
               ELSE None

\* C15: for every adapter the extracted price is the integer formed by the
\* digits of the card's price text in their order, every other character
\* removed; a price text without a digit gives an absent price and no error.
C15_PriceIsDigitsOfText == Parsed => PriceFromText(first_prop)

\* the card has an address text, and the street and city of the property
\* extracted from the card are: with two or more comma-separated segments,
\* the last segment and the join of the segments before it (all trimmed);
\* without a comma, no city and the whole (trimmed) address
AddressDecomposed(prop) ==
    card.address # None =>
       LET parts == TrimmedParts(card.address[1]) IN
         /\ prop # NoProperty
         /\ IF Len(parts) >= 2
              THEN /\ prop.address_city = Some(parts[Len(parts)])
                   /\ prop.address_street =
                        Some(JoinCommaSpace(SubSeq(parts, 1, Len(parts) - 1)))
              ELSE /\ prop.address_city = None
                   /\ prop.address_street = Some(Trim(card.address[1]))

\* C16: for every adapter and every address with two or more
\* comma-separated segments, city is the last segment (trimmed) and street
\* is all the preceding segments joined; an address without a comma gives an
\* absent city and street = the whole address.
C16_AddressDecomposed == Parsed => AddressDecomposed(first_prop)

\* the composite key written from the fields of an extracted property
SynthesizedFrom(prop) ==
    <<prop.source, "_", prop.listing_type, "_">>
      \o (IF prop.address_street = None THEN <<"None">>
          ELSE prop.address_street[1])
      \o <<"_">>
      \o (IF prop.price_current = None THEN <<"None">>
          ELSE DecimalDigits(prop.price_current[1]))
      \o (IF prop.source = "madlan" THEN <<>>
          ELSE <<"_">> \o (IF prop.square_meters = None THEN <<"None">>
                           ELSE DecimalDigits(prop.square_meters[1])))

\* the card's external id is synthesized: it is parsed from its HTML and the
\* adapter finds no numeric id in its hyperlink
IdSynthesized ==
    /\ ~(p_adapter = "yad2" /\ card.json_ld # None)
    /\ LinkId(p_adapter, card.href) = None

\* C17: the synthesized external id is deterministic: two extractions of the
\* identical card with the same listing type, at different times, give the
\* same external_id, and that id is made of the source, listing type,
\* street, price and area of the property and of nothing else.
C17_ExternalIdDeterministic ==
    p_pc = "reparsed" =>
       /\ first_prop.external_id = second_prop.external_id
       /\ IdSynthesized =>
             /\ first_prop.external_id = SynthesizedFrom(first_prop)
             /\ second_prop.external_id = SynthesizedFrom(second_prop)

\* a Yad2 card without hyperlink and without area, extracted twice at
\* different times
C17_Witness ==
    /\ p_pc = "reparsed"
    /\ p_adapter = "yad2"
    /\ p_listing_type = "buy"
    /\ card = CardOf(Some(<<"sign", "1", ",", "0">>), Some(<<"a">>), None,
                     None, None)
    /\ first_prop.scraped_at # second_prop.scraped_at
    /\ first_prop.external_id =
          <<"yad2", "_", "buy", "_", "a", "_", "1", "0", "_", "None">>
    /\ second_prop.external_id = first_prop.external_id

\* the numeric id carried by the card's hyperlink: the adapter's own pattern
\* for Yad2 and Madlan, /listing/<digits> for OnMap
HyperlinkId(a, href) ==
    IF href = None THEN None
    ELSE IF a = "yad2" THEN Yad2LinkId(href[1])
    ELSE MadlanLinkId(href[1])

\* C18: for every adapter, when the card's hyperlink carries a numeric id the
\* external id is derived from that id; only when there is none is the
\* composite key of source, listing type, street, price and area built.
C18_LinkIdBeforeComposite ==
    Parsed =>
       /\ first_prop # NoProperty
       /\ first_prop.external_id =
             IF HyperlinkId(p_adapter, card.href) # None
               THEN <<p_adapter, "_">> \o HyperlinkId(p_adapter, card.href)[1]
             ELSE SynthesizedFrom(first_prop)

\* C28: for every adapter and every extracted field, when no probe for the
\* field matches the card the field of the resulting Listing is absent and
\* not a default value; only the count field parking_spots defaults to 0.
\* Stated for the cards parsed from their HTML elements.
C28_UnmatchedFieldAbsent ==
    (Parsed /\ first_prop # NoProperty
       /\ ~(p_adapter = "yad2" /\ card.json_ld # None)) =>
       /\ PriceProbe(p_adapter, card.price_text) = None =>
             first_prop.price_current = None
       /\ card.address = None =>
             /\ first_prop.address_street = None
             /\ first_prop.address_city = None
       /\ card.sqm = None => first_prop.square_meters = None
       /\ card.ptype = None => first_prop.property_type = None
       /\ card.parking = None => first_prop.parking_spots = 0


\* the URL u made absolute with the origin of the adapter's source
Absolute(a, u) == IF StartsWithHttp(u) THEN u ELSE Origin(a) \o u

\* C29: for every adapter, each listing URL and each image URL stored in a
\* Listing is absolute: a relative URL found in the card is rewritten to
\* the source's base origin followed by the relative path, and an absolute
\* URL is kept unchanged.
C29_StoredUrlsAbsolute ==
    (Parsed /\ first_prop # NoProperty) =>
       /\ first_prop.listing_url # None =>
             /\ card.href # None
             /\ first_prop.listing_url[1] = Absolute(p_adapter, card.href[1])
       /\ first_prop.images # None =>
             /\ Len(first_prop.images[1]) = Len(card.imgs)
             /\ \A i \in 1..Len(card.imgs) :
                   first_prop.images[1][i] = Absolute(p_adapter, card.imgs[i])

\* C38: in the Yad2 adapter a card that carries a structured-data (JSON-LD)
\* block from which no Listing can be built is still extracted through the
\* HTML fallback probes: the card is not dropped, and its Listing is the one
\* the HTML probes give for the card.
C38_UnusableJsonFallsBack ==
    (/\ p_pc \in {"parsed", "reparsed"}
     /\ p_adapter = "yad2"
     /\ card.json_ld # None
     /\ ParseFromJson(p_listing_type, card.json_ld[1], 0) = NoProperty)
    => /\ first_prop # NoProperty
       /\ first_prop = ParseCard("yad2", [card EXCEPT !.json_ld = None],
                                 p_listing_type, 0)

\* the external id starts with "<tag>_"
TagPrefixed(prop, a) ==
    /\ Len(prop.external_id) >= 2
    /\ prop.external_id[1] = a
    /\ prop.external_id[2] = "_"

\* C39: every Listing produced by an adapter has source equal to that
\* adapter's tag and a non-empty external_id that starts with "<tag>_";
\* hence the Listing another adapter produces, even from the identical
\* card, has a different natural key (source, external_id).
C39_SourceTaggedKeys ==
    (p_pc \in {"parsed", "reparsed"} /\ first_prop # NoProperty) =>
       /\ first_prop.source = p_adapter
       /\ first_prop.source \in Adapters
       /\ first_prop.external_id # <<>>
       /\ TagPrefixed(first_prop, p_adapter)
       /\ \A b \in Adapters \ {p_adapter}, lt \in {"buy", "rent"} :
             LET other == ParseCard(b, card, lt, clock) IN
               other # NoProperty =>
                  /\ KeyOf(other) # KeyOf(first_prop)
                  /\ other.external_id # first_prop.external_id

\* a Madlan card whose hyperlink carries the id 7: the same card read by
\* Yad2 gives the id yad2_7
C39_Witness ==
    /\ p_pc = "parsed"
    /\ p_adapter = "madlan"
    /\ card.href = Some(<<"/", "listing", "/", "7">>)
    /\ card.json_ld = None
    /\ first_prop.source = "madlan"
    /\ first_prop.external_id = <<"madlan", "_", "7">>
    /\ ParseCard("yad2", card, "buy", clock).external_id
          = <<"yad2", "_", "7">>

\* the positions of the page whose card is extracted: no probe raises and
\* _parse_property_card returns a Property
Extracted ==
    {k \in 1..Len(page_cards) :
        /\ ~page_cards[k].raises
        /\ ParseCard(p_adapter, page_cards[k].card, p_listing_type, k - 1)
              # NoProperty}

\* C31: for every adapter, when extraction of one card fails only that card
\* is dropped: _parse_properties does not raise and returns, in card order,
\* the Listings of all the other cards of the page.
C31_FailedCardDropped ==
    p_pc = "page_parsed" =>
       /\ Len(page_props) = Cardinality(Extracted)
       /\ \A j \in 1..Len(page_props) :
             \E k \in Extracted :
                /\ Cardinality({m \in Extracted : m <= k}) = j
                /\ page_props[j] =
                      ParseCard(p_adapter, page_cards[k].card,
                                p_listing_type, k - 1)

\* a page of three cards whose second card raised: the first and the third
\* card are returned, in that order
C31_Witness ==
    /\ p_pc = "page_parsed"
    /\ Len(page_cards) = 3
    /\ ~page_cards[1].raises
    /\ page_cards[2].raises
    /\ ~page_cards[3].raises
    /\ page_cards[1].card # page_cards[3].card
    /\ Len(page_props) = 2
    /\ page_props[1].scraped_at = 0
    /\ page_props[2].scraped_at = 2

\* the natural keys of the listings an invocation holds
HeldKeys(w) ==
    {KeyOf(workers[w].properties[i]) :
        i \in 1..Len(workers[w].properties)}

\* C32: when two save_to_db invocations run concurrently and both hold a
\* listing with the same (source, external_id) that is not yet stored, then
\* under every interleaving of their select, insert and update steps the
\* store ends with exactly one row for that key (no store call having
\* raised).
C32_OneRowUnderInterleaving ==
    (/\ \A w \in Workers : workers[w].pc = "returned"
     /\ \A w \in Workers : workers[w].counts.errors = 0)
    => \A k \in HeldKeys(1) \cap HeldKeys(2) :
          k \notin store_before => Cardinality(RowsOf(store, k)) = 1

====
